---- MODULE Spec2Model ----
(***************************************************************************)
(* AiChemistForge, TypeScript tool rack: the Brave search tool.            *)
(*                                                                         *)
(*   braveSearchTools.ts   requestCount, checkRateLimit, incrementRateLimit,*)
(*                         addJitter, performBraveSearch, executeWebSearch  *)
(*   searchService.ts      SearchService.search                            *)
(*   semanticCache.ts      SemanticCacheService (initialize, findSimilar,   *)
(*                         store, cleanupExpired, clear, close)            *)
(*   embeddingService.ts   EmbeddingService.embed, cosineSimilarity        *)
(*                                                                         *)
(* Node runs one event loop: the code between two awaits is one atomic     *)
(* step.  Every action below is such a step of one in-flight tool call.    *)
(* Time is the value of Date.now(), counted in quanta of QuantumMs         *)
(* milliseconds since the module was loaded; delays are kept in            *)
(* milliseconds as the code computes them.                                 *)
(***************************************************************************)
EXTENDS Integers, Sequences, FiniteSets, TLC

(***************************************************************************)
(* Program constants.                                                      *)
(***************************************************************************)
RATE_LIMIT_perSecond == 1
RATE_LIMIT_perMonth == 2000
RETRY_maxAttempts == 3
RETRY_initialDelayMs == 1000
RETRY_maxDelayMs == 10000
RETRY_backoffMultiplier == 2
\* jitterFactor 0.1, as a percentage
RETRY_jitterFactorPct == 10
\* "now - lastSecondReset >= 1000"
SecondWindowMs == 1000
\* "30 days = 2,592,000,000 ms", written as 30 days of 86,400,000 ms
MonthWindowDays == 30
DayMs == 86400000
\* setTimeout(() => controller.abort(), 10000)
FetchTimeoutMs == 10000
\* featureFlags.CACHE_TTL_SECONDS default
CACHE_TTL_SECONDS == 3600
MAX_RESULTS_PER_DOMAIN == 2
MULTI_LINK_PAUSE_MS == 1100
PERPLEXITY_TIMEOUT_MS == 600000
PERPLEXITY_maxAttempts == 3
PERPLEXITY_initialDelayMs == 2000
PERPLEXITY_maxDelayMs == 15000
PERPLEXITY_backoffMultiplier == 2
PERPLEXITY_jitterFactorPct == 10
MIN_REQUEST_INTERVAL_MS == 2000
\* SELECT ... LIMIT 100
ScanLimit == 100
\* MODEL_CONFIG.cache.similarityThreshold = 0.92, as a percentage
SimilarityThresholdPct == 92

(***************************************************************************)
(* Resolution of the clock and bounds of the model.                        *)
(***************************************************************************)
QuantumMs == 50
MaxSearches == 2
MaxTicks == 3
MaxItems == 5
MaxLines == 4
MaxQueries == 2
MaxConfigAttempts == 4

Procs == {"s1", "s2"}
Queries == {"qa", "qb", "qc"}
SearchTypes == {"web", "code"}

SecondWindow == SecondWindowMs \div QuantumMs
MonthWindow == MonthWindowDays * (DayMs \div QuantumMs)
FetchTimeout == FetchTimeoutMs \div QuantumMs

Max(a, b) == IF a >= b THEN a ELSE b
Min(a, b) == IF a <= b THEN a ELSE b
CeilDiv(a, b) == (a + b - 1) \div b

RECURSIVE Pow(_, _)
Pow(b, e) == IF e <= 0 THEN 1 ELSE b * Pow(b, e - 1)

VARIABLES
    now,              \* Date.now(), in quanta
    ticks,            \* clock steps taken (bounded by MaxTicks)
    started,          \* tool calls started (bounded by MaxSearches)
    ENABLE_SEMANTIC_CACHE,  \* featureFlags.ENABLE_SEMANTIC_CACHE
    requestCount,     \* [second, month, lastSecondReset, lastMonthReset]
    pc,               \* position of each tool call
    call,             \* arguments of each tool call: [query, searchType]
    attempt,          \* performBraveSearch: let attempt
    deadline,         \* wake-up time of a sleep, or firing time of the abort timer
    outcome,          \* how the call ended: [kind, error, payload, isError]
    db,               \* SemanticCacheService.db: "null" | "open"
    rows,             \* table search_cache, in insertion order
    embInitialized,   \* EmbeddingService.initialized
    obs,              \* per call observations (history of the current call)
    processing,       \* the last call of parseSearchResults / deduplicateResults
    multi,            \* executeMultiLinkSearch of each caller: its loop
    perplexity        \* perplexityResearchTools: lastRequestTime and its callers

vars == <<now, ticks, started, ENABLE_SEMANTIC_CACHE, requestCount, pc, call,
          attempt, deadline, outcome, db, rows, embInitialized, obs, processing,
          multi, perplexity>>

(***************************************************************************)
(* braveSearchTools.ts: the rate limiter.                                  *)
(***************************************************************************)

\* let requestCount = {second: 0, month: 0, lastSecondReset: Date.now(), ...}
NewRequestCount(t) ==
    [second |-> 0, month |-> 0, lastSecondReset |-> t, lastMonthReset |-> t]

\* Variant: the resets without their window tests.
RollOverAlways(rc, t) ==
    [second |-> 0, month |-> 0, lastSecondReset |-> t, lastMonthReset |-> t]

\* Variant: the one-second window reset only after more than 1000 ms.
RollOverLate(rc, t) ==
    LET rc1 == IF t - rc.lastSecondReset > SecondWindow
               THEN [rc EXCEPT !.second = 0, !.lastSecondReset = t]
               ELSE rc
    IN  IF t - rc1.lastMonthReset >= MonthWindow
        THEN [rc1 EXCEPT !.month = 0, !.lastMonthReset = t]
        ELSE rc1

\* The two window resets at the head of checkRateLimit.
RollOver(rc, t) ==
    LET rc1 == IF t - rc.lastSecondReset >= SecondWindow
               THEN [rc EXCEPT !.second = 0, !.lastSecondReset = t]
               ELSE rc
    IN  IF t - rc1.lastMonthReset >= MonthWindow
        THEN [rc1 EXCEPT !.month = 0, !.lastMonthReset = t]
        ELSE rc1

\* The monthly test of checkRateLimit (hard limit).
MonthlyLimitReached(rc) == rc.month >= RATE_LIMIT_perMonth

\* The per-second test of checkRateLimit (soft limit).
SecondLimitReached(rc) == rc.second >= RATE_LIMIT_perSecond

\* checkRateLimit(): the counters after the resets, and the returned object.
\* "Resets in N days" of the monthly reason is daysLeft.
CheckRateLimit(rc, t) ==
    LET r == RollOver(rc, t)
        waitTime == SecondWindowMs - (t - r.lastSecondReset) * QuantumMs
        left == MonthWindow - (t - r.lastMonthReset)
    IN  IF MonthlyLimitReached(r)
        THEN [rc |-> r, canProceed |-> FALSE, waitTimeMs |-> 0,
              reason |-> "monthly",
              daysLeft |-> CeilDiv(left, DayMs \div QuantumMs)]
        ELSE IF SecondLimitReached(r)
        THEN [rc |-> r, canProceed |-> FALSE, waitTimeMs |-> Max(0, waitTime),
              reason |-> "second", daysLeft |-> 0]
        ELSE [rc |-> r, canProceed |-> TRUE, waitTimeMs |-> 0,
              reason |-> "ok", daysLeft |-> 0]

\* incrementRateLimit()
IncrementRateLimit(rc) ==
    [rc EXCEPT !.second = @ + 1, !.month = @ + 1]

\* Math.random(), in thousandths: 0 <= r < 1
Randoms == {0, 999}

\* addJitter(delayMs), with Math.random() = r / 1000:
\*   jitter = delayMs * jitterFactor * (random - 0.5); Math.round(delayMs + jitter)
\* (delayMs is a whole number, so the rounding acts on the jitter alone).
AddJitter(delayMs, r) ==
    LET jitter100000 == delayMs * RETRY_jitterFactorPct * (r - 500)
    IN  delayMs + (2 * jitter100000 + 100000) \div 200000

\* Math.min(initialDelayMs * Math.pow(backoffMultiplier, attempt - 1), maxDelayMs)
BackoffCapped(a) ==
    Min(RETRY_initialDelayMs * Pow(RETRY_backoffMultiplier, a - 1), RETRY_maxDelayMs)

\* The delay of the timeout branch: no Math.min.
BackoffTimeout(a) ==
    RETRY_initialDelayMs * Pow(RETRY_backoffMultiplier, a - 1)

\* The Retry-After header of a 429 response: absent (<<>>) or seconds (<<n>>).
RetryAfterHeaders == {<<>>, <<2>>}

\* Variant: the 429 branch without the Retry-After header.
RetryDelayMsIgnoresHeader(header, a) == BackoffCapped(a)

\* retryAfter ? parseInt(retryAfter) * 1000 : Math.min(...)
RetryDelayMs(header, a) ==
    IF header # <<>> THEN header[1] * 1000 ELSE BackoffCapped(a)

\* sleep(ms): setTimeout fires once ms have passed.
WakeTime(t, ms) == t + CeilDiv(Max(ms, 0), QuantumMs)

\* while (attempt < RETRY_CONFIG.maxAttempts)
LoopCondition(a) == a < RETRY_maxAttempts

\* Variant: the catch treats every error as the abort of the request timer.
IsAbortErrorAny(name) == TRUE

\* error instanceof Error && error.name === 'AbortError'
IsAbortError(name) == name = "AbortError"

\* Variant: the loop without its attempt++.
NextAttemptOmitted(a) == a

\* attempt++
NextAttempt(a) == a + 1

\* Variant: the loop without the throw for a zero wait.
IsQuotaErrorOmitted(chk) == FALSE

\* if (rateLimitCheck.waitTimeMs === 0) throw
IsQuotaError(chk) == ~chk.canProceed /\ chk.waitTimeMs = 0

\* if (attempt < RETRY_CONFIG.maxAttempts): attempts remain, so sleep and continue
AttemptsRemain(a) == a < RETRY_maxAttempts

(***************************************************************************)
(* embeddingService.ts                                                     *)
(***************************************************************************)

\* The embedding model: a fixed vector per text (normalisation does not
\* change a cosine, so the vectors are kept unnormalised integers).
Embedding(q) ==
    CASE q = "qa" -> <<10, 0>>
      [] q = "qb" -> <<10, 2>>
      [] q = "qz" -> <<0, 0>>
      [] OTHER    -> <<0, 10>>

RECURSIVE DotFrom(_, _, _)
DotFrom(a, b, i) ==
    IF i > Len(a) THEN 0 ELSE a[i] * b[i] + DotFrom(a, b, i + 1)

\* cosineSimilarity(vecA, vecB): a throw on a dimension mismatch, else the
\* cosine, kept exactly as its signed square num / den (den > 0).
CosineSimilarity(a, b) ==
    IF Len(a) # Len(b) THEN [throws |-> TRUE, num |-> 0, den |-> 1]
    ELSE LET dot == DotFrom(a, b, 1)
             magA2 == DotFrom(a, a, 1)
             magB2 == DotFrom(b, b, 1)
         IN  IF magA2 = 0 \/ magB2 = 0
             THEN [throws |-> FALSE, num |-> 0, den |-> 1]
             ELSE [throws |-> FALSE,
                   num |-> IF dot >= 0 THEN dot * dot ELSE 0 - dot * dot,
                   den |-> magA2 * magB2]

SimZero == [throws |-> FALSE, num |-> 0, den |-> 1]
\* Variant: the scan without its "similarity > bestSimilarity" test.
SimGreaterOmitted(s, best) == TRUE

\* Variant: similarity >= bestSimilarity
SimGreaterOrEqual(s, best) == s.num * best.den >= best.num * s.den

\* similarity > bestSimilarity
SimGreater(s, best) == s.num * best.den > best.num * s.den
\* similarity >= this.similarityThreshold
SimAtLeastThreshold(s) ==
    s.num * 10000 >= SimilarityThresholdPct * SimilarityThresholdPct * s.den

\* What one call of embed() can do: load the model if needed, warm it up, infer.
EmbedOutcomes == {"ok", "load_fail", "infer_fail"}

\* embed(text): lazy initialize() (initialized is set once the pipeline is
\* loaded, before the warm-up) and the inference; throws on either failure.
Embed(initialized, how, text) ==
    IF ~initialized /\ how = "load_fail"
    THEN [initialized |-> FALSE, throws |-> TRUE, vec |-> <<>>]
    ELSE IF how = "ok"
    THEN [initialized |-> TRUE, throws |-> FALSE, vec |-> Embedding(text)]
    ELSE [initialized |-> TRUE, throws |-> TRUE, vec |-> <<>>]

(***************************************************************************)
(* semanticCache.ts                                                        *)
(***************************************************************************)

\* What initialize() can do when the database is not open yet: succeed, throw
\* before this.db is assigned, or throw after it (pragma / CREATE TABLE).
InitializeOutcomes == {"ok", "fail_closed", "fail_open"}

\* initialize(): if (this.db) return; ... catch { throw error }
Initialize(dbv, how) ==
    IF dbv # "null" THEN [db |-> dbv, throws |-> FALSE]
    ELSE IF how = "ok" THEN [db |-> "open", throws |-> FALSE]
    ELSE IF how = "fail_open" THEN [db |-> "open", throws |-> TRUE]
    ELSE [db |-> "null", throws |-> TRUE]

\* ttlSeconds * 1000, in quanta
TtlOf(ttlSeconds) == ttlSeconds * (1000 \div QuantumMs)

\* Variant: the DELETE with its comparison turned round.
ExpiredInverted(row, t) == row.timestamp + row.ttl > t

\* DELETE FROM search_cache WHERE timestamp + ttl < ?
Expired(row, t) == row.timestamp + row.ttl < t

\* The rows the DELETE leaves, in their order.
KeepLive(rs, t) == SelectSeq(rs, LAMBDA row : ~Expired(row, t))

\* cleanupExpired(): nothing without a database; a failing DELETE is caught.
CleanupExpired(dbv, rs, t, deleteOk) ==
    IF dbv = "null" \/ ~deleteOk THEN rs ELSE KeepLive(rs, t)

\* The order of rows with equal timestamps is not fixed by ORDER BY timestamp
\* DESC: SQLite may hand them out by ascending or by descending rowid.
TieOrders == {"rowid_asc", "rowid_desc"}

\* Whether row i comes before row j in ORDER BY timestamp DESC.
ScansBefore(rs, i, j, tie) ==
    \/ rs[i].timestamp > rs[j].timestamp
    \/ /\ rs[i].timestamp = rs[j].timestamp
       /\ IF tie = "rowid_asc" THEN i < j ELSE i > j

\* The rows at the places idx in the order of ORDER BY timestamp DESC.
OrderRows(rs, idx, tie) ==
    LET places == SelectSeq([i \in 1..Len(rs) |-> i], LAMBDA i : i \in idx)
        sorted == SortSeq(places, LAMBDA i, j : ScansBefore(rs, i, j, tie))
    IN  [k \in 1..Len(sorted) |-> rs[sorted[k]]]

\* Variant: the SELECT without its LIMIT clause.
SelectCandidatesNoLimit(rs, searchType, tie) ==
    LET idx == {i \in 1..Len(rs) : rs[i].search_type = searchType}
    IN  OrderRows(rs, idx, tie)

\* Variant: the SELECT without its WHERE search_type = ? clause.
SelectCandidatesAnyType(rs, searchType, tie) ==
    LET ordered == OrderRows(rs, 1..Len(rs), tie)
    IN  SubSeq(ordered, 1, Min(Len(ordered), ScanLimit))

\* SELECT ... WHERE search_type = ? ORDER BY timestamp DESC LIMIT 100
SelectCandidates(rs, searchType, tie) ==
    LET idx == {i \in 1..Len(rs) : rs[i].search_type = searchType}
        ordered == OrderRows(rs, idx, tie)
    IN  SubSeq(ordered, 1, Min(Len(ordered), ScanLimit))

NoMatch == [throws |-> FALSE, found |-> FALSE, row |-> <<>>, similarity |-> SimZero]

\* Variant: a scan that steps over a candidate whose similarity cannot be
\* computed.
ScanEntrySkipsThrowing(entry, qv, best) ==
    LET sim == CosineSimilarity(qv, entry.query_embedding)
    IN  IF sim.throws THEN best
        ELSE IF SimGreater(sim, best.similarity) /\ SimAtLeastThreshold(sim)
        THEN [throws |-> FALSE, found |-> TRUE, row |-> entry, similarity |-> sim]
        ELSE best

\* One pass of the for loop of findSimilar, for one candidate; a throw of
\* cosineSimilarity ends the loop.
ScanEntry(entry, qv, best) ==
    IF best.throws THEN best
    ELSE LET sim == CosineSimilarity(qv, entry.query_embedding)
         IN  IF sim.throws THEN [best EXCEPT !.throws = TRUE]
             ELSE IF SimGreater(sim, best.similarity) /\ SimAtLeastThreshold(sim)
             THEN [throws |-> FALSE, found |-> TRUE,
                   row |-> entry, similarity |-> sim]
             ELSE best

\* The for loop of findSimilar over the candidates at the places lo..hi, in
\* their order: the first half of the places, then the second.
RECURSIVE ScanFrom(_, _, _, _, _)
ScanFrom(entries, lo, hi, qv, best) ==
    IF lo > hi THEN best
    ELSE IF lo = hi THEN ScanEntry(entries[lo], qv, best)
    ELSE LET mid == (lo + hi) \div 2
             first == ScanFrom(entries, lo, mid, qv, best)
         IN  IF first.throws THEN first
             ELSE ScanFrom(entries, mid + 1, hi, qv, first)

\* let bestMatch = null; let bestSimilarity = 0; for (...) {...}; return bestMatch
BestMatch(entries, qv) == ScanFrom(entries, 1, Len(entries), qv, NoMatch)

(***************************************************************************)
(* resultProcessor: parseSearchResults.                                    *)
(***************************************************************************)

\* The lines of a raw text (rawText.split('\n')): an empty line, a line that
\* starts with 'Title: ', 'Description: ' or 'URL: ' (value: the rest of the
\* line, trimmed), or any other text.
BlankLine == [kind |-> "blank", value |-> ""]
Lines ==
    {BlankLine,
     [kind |-> "title", value |-> "T"],
     [kind |-> "title", value |-> ""],
     [kind |-> "description", value |-> "D"],
     [kind |-> "url", value |-> "U"],
     [kind |-> "url", value |-> ""],
     [kind |-> "other", value |-> "x"]}

\* A property that was never assigned.
Undefined == "undefined"

\* const result: Partial<SearchResult> = {}
EmptyResult == [title |-> Undefined, description |-> Undefined, url |-> Undefined]

RECURSIVE SplitBlocks(_, _, _)
\* rawText.split('\n\n').filter((b) => b.trim()): the text is cut at its
\* empty lines, and blocks without a line are left out.
SplitBlocks(lines, i, block) ==
    IF i > Len(lines)
    THEN IF block = <<>> THEN <<>> ELSE <<block>>
    ELSE IF lines[i] = BlankLine
    THEN (IF block = <<>> THEN <<>> ELSE <<block>>)
            \o SplitBlocks(lines, i + 1, <<>>)
    ELSE SplitBlocks(lines, i + 1, Append(block, lines[i]))

RECURSIVE ParseLines(_, _, _)
\* for (const line of lines): the fields are assigned from the marked lines.
ParseLines(block, i, result) ==
    IF i > Len(block) THEN result
    ELSE ParseLines(block, i + 1,
            IF block[i].kind = "title"
            THEN [result EXCEPT !.title = block[i].value]
            ELSE IF block[i].kind = "description"
            THEN [result EXCEPT !.description = block[i].value]
            ELSE IF block[i].kind = "url"
            THEN [result EXCEPT !.url = block[i].value]
            ELSE result)

\* A value that counts as true in a condition.
Truthy(v) == v # Undefined /\ v # ""

\* Variant: a title is enough for an item.
IsCompleteTitleOnly(result) == Truthy(result.title)

\* if (result.title && result.url)
IsComplete(result) == Truthy(result.title) /\ Truthy(result.url)

RECURSIVE ParseBlocks(_, _)
\* for (const block of resultBlocks)
ParseBlocks(blocks, i) ==
    IF i > Len(blocks) THEN <<>>
    ELSE LET result == ParseLines(blocks[i], 1, EmptyResult)
         IN  (IF IsComplete(result) THEN <<result>> ELSE <<>>)
                \o ParseBlocks(blocks, i + 1)

\* parseSearchResults(rawText)
ParseSearchResults(lines) == ParseBlocks(SplitBlocks(lines, 1, <<>>), 1)

(***************************************************************************)
(* resultProcessor: deduplicateResults.                                    *)
(***************************************************************************)

\* The URLs of the results.  new URL(url) throws for an invalid one; for a
\* valid one hostname is given as its pieces, "www." being one piece.
InvalidUrl == [valid |-> FALSE, hostname |-> <<>>]
Urls ==
    {InvalidUrl,
     [valid |-> TRUE, hostname |-> <<"www.", "a.com">>],
     [valid |-> TRUE, hostname |-> <<"a.com">>],
     [valid |-> TRUE, hostname |-> <<"b.org">>]}

RECURSIVE ReplaceFirst(_, _)
\* String.prototype.replace(piece, ''): the first occurrence is removed.
ReplaceFirst(hostname, piece) ==
    IF hostname = <<>> THEN <<>>
    ELSE IF Head(hostname) = piece THEN Tail(hostname)
    ELSE <<Head(hostname)>> \o ReplaceFirst(Tail(hostname), piece)

\* new URL(result.url).hostname.replace('www.', '')
DomainOf(url) == ReplaceFirst(url.hostname, "www.")

\* Variant: one more item per domain is let through.
CountBelowInclusive(count, maxPerDomain) == count <= maxPerDomain

\* if (count < maxPerDomain)
CountBelow(count, maxPerDomain) == count < maxPerDomain

\* domainCounts.get(domain) || 0
CountGet(domainCounts, domain) ==
    IF domain \in DOMAIN domainCounts THEN domainCounts[domain] ELSE 0

\* domainCounts.set(domain, count + 1)
CountSet(domainCounts, domain, n) ==
    [d \in DOMAIN domainCounts \cup {domain} |->
        IF d = domain THEN n ELSE domainCounts[d]]

RECURSIVE DeduplicateFrom(_, _, _, _, _)
\* The for loop of deduplicateResults from results[i] on.
DeduplicateFrom(results, i, maxPerDomain, domainCounts, deduplicated) ==
    IF i > Len(results) THEN deduplicated
    ELSE IF ~results[i].url.valid
    THEN \* catch: 'Invalid URL in result', skip
         DeduplicateFrom(results, i + 1, maxPerDomain, domainCounts, deduplicated)
    ELSE LET domain == DomainOf(results[i].url)
             count == CountGet(domainCounts, domain)
         IN  IF CountBelow(count, maxPerDomain)
             THEN DeduplicateFrom(results, i + 1, maxPerDomain,
                                  CountSet(domainCounts, domain, count + 1),
                                  Append(deduplicated, results[i]))
             ELSE DeduplicateFrom(results, i + 1, maxPerDomain, domainCounts,
                                  deduplicated)

\* deduplicateResults(results, maxPerDomain), featureFlags.ENABLE_DEDUPLICATION
\* being flag.
DeduplicateResults(results, maxPerDomain, flag) ==
    IF ~flag THEN results
    ELSE DeduplicateFrom(results, 1, maxPerDomain, <<>>, <<>>)

(***************************************************************************)
(* searchService.ts: what search() returns.                                *)
(***************************************************************************)

NoAge == [n |-> 0, unit |-> ""]

\* search(query, count = 10, offset = 0, searchType): the default page, and
\* the pages a caller asks for.
DefaultPage == [count |-> 10, offset |-> 0]
Pages == {DefaultPage, [count |-> 5, offset |-> 1]}

\* A result text: its kind, the query and the page (count, offset) of the
\* upstream request it lists, and the cache age it shows.
NoPayload == [text |-> "", query |-> "", page |-> DefaultPage, age |-> NoAge]

\* The body of an OK response: some results, or none.
BodyKinds == {"results", "empty"}

\* formatResults(processed): "No results found for your query." for an empty
\* list, else the report with the "*Fresh results" line.
FormatResults(q, kind) ==
    IF kind = "empty"
    THEN [text |-> "noresults", query |-> "", page |-> DefaultPage, age |-> NoAge]
    ELSE [text |-> "fresh", query |-> q, page |-> DefaultPage, age |-> NoAge]

\* The text formatted from the answer to performBraveSearch(query, count,
\* offset): it lists the results of that page.
FormatPage(q, kind, page) == [FormatResults(q, kind) EXCEPT !.page = page]

\* formatCacheAge(timestamp): "just now", "{n}m ago", "{n}h ago", "{n}d ago"
FormatCacheAge(timestamp, t) ==
    LET ageMinutes == (t - timestamp) \div (60000 \div QuantumMs)
        ageHours == ageMinutes \div 60
    IN  IF ageMinutes < 1 THEN [n |-> 0, unit |-> "just now"]
        ELSE IF ageMinutes < 60 THEN [n |-> ageMinutes, unit |-> "m ago"]
        ELSE IF ageHours < 24 THEN [n |-> ageHours, unit |-> "h ago"]
        ELSE [n |-> ageHours \div 24, unit |-> "d ago"]

\* The cache-hit branch of search(): the cached payload with its indicator
\* replaced ("*Fresh results" -> "*Results from cache (age)") or prefixed.
CachedReply(payload, age) ==
    IF payload.text = "fresh" THEN [payload EXCEPT !.text = "cached", !.age = age]
    ELSE IF payload.text = "cached" THEN [payload EXCEPT !.age = age]
    ELSE [payload EXCEPT !.text = "cached_prefix", !.age = age]

\* Variant: search() without the early return of its cache-hit branch.
ReturnsCachedOmitted(found) == FALSE

\* if (cached) { ... return } : a non-null findSimilar result ends the search.
ReturnsCached(found) == found

\* Variant: findSimilar without its try/catch.
LookupCatchesOmitted(threw) == FALSE

\* findSimilar's catch: an error inside the try block gives null.
LookupCatches(threw) == threw

(***************************************************************************)
(* The state machine.                                                      *)
(***************************************************************************)

NoCall == [query |-> "", searchType |-> ""]
NoOutcome == [kind |-> "none", error |-> "", payload |-> NoPayload, isError |-> FALSE]

\* The arguments and the result of a direct store() call.
NoStored ==
    [query |-> "", searchType |-> "", ttl |-> 0, at |-> 0, inserted |-> FALSE]

\* The arguments and the result of a direct findSimilar() call since the last
\* store: the CacheHit it returned (found) with the timestamp, ttl and
\* search_type of its row.
NoLookup ==
    [done |-> FALSE, query |-> "", searchType |-> "", at |-> 0, tie |-> "",
     threw |-> FALSE, found |-> FALSE, hitQuery |-> "", hitType |-> "",
     hitTimestamp |-> 0, hitTtl |-> 0, similarity |-> SimZero]

\* The sleep a call is in: what led to it, the Retry-After header of the 429
\* response, the delay handed to addJitter and the delay handed to sleep.
NoSleep == [cause |-> "", header |-> <<>>, base |-> 0, ms |-> 0]

\* What a call has done so far.
Obs0 ==
    [fetches |-> 0,           \* upstream requests issued
     okResponses |-> 0,       \* responses with response.ok
     commits |-> 0,           \* calls of incrementRateLimit
     lastCheck |-> "",        \* last checkRateLimit result: ok | second | monthly
     window |-> 0,            \* lastSecondReset seen by a check that passed
     secondLeft |-> 0,        \* perSecond - second seen by a check that passed
     page |-> DefaultPage,    \* count and offset passed to search()
     cacheHit |-> FALSE,      \* findSimilar returned an entry
     overlapped |-> FALSE,    \* another call's store() was awaiting its embed
                              \* when findSimilar was called or when it scanned
     embedFailed |-> FALSE,   \* embed threw during the cache lookup
     stores |-> 0,            \* calls of semanticCache.store by search()
     inserts |-> 0,           \* rows inserted
     storeThrew |-> FALSE,    \* semanticCache.store rejected
     slept |-> NoSleep,       \* the sleep the call is in
     loads |-> 0,             \* pipelines this caller has loaded
     warmups |-> 0,           \* warm-up inferences this caller has started
     deleted |-> "",          \* the caller's last DELETE: purged | cleared |
                              \* failed | no_db
     stored |-> NoStored,     \* the last direct store() call
     lookup |-> NoLookup]     \* the last direct findSimilar() call

\* No request to Perplexity made yet.
NoneIssued == -1

\* The module of the Perplexity tool when the model starts at time t: no
\* caller, lastRequestTime.value = 0, which is long before t on the clock of
\* Date.now(); here the latest time that is a full interval before t.
NoPerplexity(t) ==
    [lastRequestTime |-> t - MIN_REQUEST_INTERVAL_MS \div QuantumMs,
     pc |-> [p \in Procs |-> "idle"],
     attempt |-> [p \in Procs |-> 0],
     deadline |-> [p \in Procs |-> 0],
     error |-> [p \in Procs |-> ""],
     prevIssued |-> NoneIssued,     \* when the request before the last was issued
     lastIssued |-> NoneIssued]     \* when the last request was issued

\* No executeMultiLinkSearch under way.
NoMulti ==
    [active |-> FALSE, queries |-> <<>>, i |-> 0, searchResults |-> <<>>,
     finishedAt |-> 0]

\* No call of the result processor yet.
NoProcessing ==
    [op |-> "", flag |-> FALSE, maxPerDomain |-> 0, input |-> <<>>,
     output |-> <<>>]

\* The counters a process that has served requests before can hold when the
\* model starts: none, or all but one of the month's quota.
InitMonths == {0, RATE_LIMIT_perMonth - 1}

Init ==
    /\ \E m \in InitMonths :
          /\ now = m * SecondWindow
          /\ requestCount = [NewRequestCount(0) EXCEPT !.month = m,
                                                       !.lastSecondReset = m * SecondWindow]
    /\ ticks = 0
    /\ started = 0
    /\ ENABLE_SEMANTIC_CACHE \in BOOLEAN
    /\ pc = [p \in Procs |-> "idle"]
    /\ call = [p \in Procs |-> NoCall]
    /\ attempt = [p \in Procs |-> 0]
    /\ deadline = [p \in Procs |-> 0]
    /\ outcome = [p \in Procs |-> NoOutcome]
    /\ db = "null"
    /\ rows = <<>>
    /\ embInitialized = FALSE
    /\ obs = [p \in Procs |-> Obs0]
    /\ processing = NoProcessing
    /\ multi = [p \in Procs |-> NoMulti]
    /\ perplexity = NoPerplexity(now)

\* search() rejects with err; executeWebSearch / executeCodeSearch catch it
\* and return isError: true.
Rejected(err) ==
    [kind |-> "rejected", error |-> err, payload |-> NoPayload, isError |-> TRUE]

\* search() resolves; the tool returns isError: false.
Resolved(kind, payload) ==
    [kind |-> kind, error |-> "", payload |-> payload, isError |-> FALSE]

\* A store() of a call other than p has been called and has not yet run its
\* INSERT.
StoreInFlight(p) == \E q \in Procs \ {p} : pc[q] = "store"

\* executeWebSearch / executeCodeSearch -> SearchService.search, up to its
\* first await: with the cache on, findSimilar's initialize() and the call of
\* embed; with it off, the import of performBraveSearch.
StartSearchPage(p, q, page, st, how) ==
    /\ pc[p] = "idle"
    /\ started < MaxSearches
    /\ started' = started + 1
    /\ call' = [call EXCEPT ![p] = [query |-> q, searchType |-> st]]
    /\ attempt' = [attempt EXCEPT ![p] = 0]
    /\ obs' = [obs EXCEPT ![p] = [Obs0 EXCEPT !.page = page, !.overlapped =
                                      ENABLE_SEMANTIC_CACHE /\ StoreInFlight(p)]]
    /\ IF ENABLE_SEMANTIC_CACHE
       THEN LET ini == Initialize(db, how)
            IN  /\ db' = ini.db
                /\ IF ini.throws
                   THEN /\ pc' = [pc EXCEPT ![p] = "done"]
                        /\ outcome' = [outcome EXCEPT ![p] = Rejected("cache_init")]
                   ELSE /\ pc' = [pc EXCEPT ![p] = "lookup"]
                        /\ outcome' = [outcome EXCEPT ![p] = NoOutcome]
       ELSE /\ pc' = [pc EXCEPT ![p] = "loop"]
            /\ outcome' = [outcome EXCEPT ![p] = NoOutcome]
            /\ db' = db
    /\ UNCHANGED <<now, ticks, ENABLE_SEMANTIC_CACHE, processing, multi,
                   requestCount, deadline, rows, embInitialized, perplexity>>

\* search() called with the default count and offset.
StartSearch(p, q, st, how) == StartSearchPage(p, q, DefaultPage, st, how)

\* Variant: a lookup whose key holds count and offset too: an entry fetched
\* for another page is not a hit.
LookupResolveKeyedByPage(p, how, deleteOk, selectOk, tie) ==
    /\ pc[p] = "lookup"
    /\ LET e == Embed(embInitialized, how, call[p].query)
           cleaned == IF e.throws THEN rows
                      ELSE CleanupExpired(db, rows, now, deleteOk)
           selectThrows == db = "null" \/ ~selectOk
           best == IF e.throws \/ selectThrows THEN NoMatch
                   ELSE BestMatch(SelectCandidates(cleaned, call[p].searchType, tie),
                                  e.vec)
           threw == e.throws \/ selectThrows \/ best.throws
           found == IF LookupCatches(threw) THEN FALSE
                    ELSE best.found /\ best.row.results.page = obs[p].page
       IN  /\ embInitialized' = e.initialized
           /\ rows' = cleaned
           /\ obs' = [obs EXCEPT ![p].embedFailed = e.throws, ![p].cacheHit = found,
                                 ![p].overlapped = @ \/ StoreInFlight(p)]
           /\ IF threw /\ ~LookupCatches(threw)
              THEN /\ pc' = [pc EXCEPT ![p] = "done"]
                   /\ outcome' = [outcome EXCEPT ![p] = Rejected("cache_lookup")]
              ELSE IF ReturnsCached(found)
              THEN /\ pc' = [pc EXCEPT ![p] = "done"]
                   /\ outcome' = [outcome EXCEPT ![p] =
                          Resolved("hit", CachedReply(best.row.results,
                                       FormatCacheAge(best.row.timestamp, now)))]
              ELSE /\ pc' = [pc EXCEPT ![p] = "loop"]
                   /\ outcome' = outcome
    /\ UNCHANGED <<now, ticks, started, ENABLE_SEMANTIC_CACHE, processing,
                   multi, requestCount, call, attempt, deadline, db,
                   perplexity>>

\* findSimilar after its embed() settles: cleanupExpired, the SELECT, the scan;
\* then search() returns the cached payload or goes on to performBraveSearch.
LookupResolve(p, how, deleteOk, selectOk, tie) ==
    /\ pc[p] = "lookup"
    /\ LET e == Embed(embInitialized, how, call[p].query)
           cleaned == IF e.throws THEN rows
                      ELSE CleanupExpired(db, rows, now, deleteOk)
           selectThrows == db = "null" \/ ~selectOk
           best == IF e.throws \/ selectThrows THEN NoMatch
                   ELSE BestMatch(SelectCandidates(cleaned, call[p].searchType, tie),
                                  e.vec)
           threw == e.throws \/ selectThrows \/ best.throws
           found == IF LookupCatches(threw) THEN FALSE ELSE best.found
       IN  /\ embInitialized' = e.initialized
           /\ rows' = cleaned
           /\ obs' = [obs EXCEPT ![p].embedFailed = e.throws, ![p].cacheHit = found,
                                 ![p].overlapped = @ \/ StoreInFlight(p)]
           /\ IF threw /\ ~LookupCatches(threw)
              THEN /\ pc' = [pc EXCEPT ![p] = "done"]
                   /\ outcome' = [outcome EXCEPT ![p] = Rejected("cache_lookup")]
              ELSE IF ReturnsCached(found)
              THEN /\ pc' = [pc EXCEPT ![p] = "done"]
                   /\ outcome' = [outcome EXCEPT ![p] =
                          Resolved("hit", CachedReply(best.row.results,
                                       FormatCacheAge(best.row.timestamp, now)))]
              ELSE /\ pc' = [pc EXCEPT ![p] = "loop"]
                   /\ outcome' = outcome
    /\ UNCHANGED <<now, ticks, started, ENABLE_SEMANTIC_CACHE, processing,
                   multi, requestCount, call, attempt, deadline, db,
                   perplexity>>

\* One pass of performBraveSearch's while loop up to its first await: the loop
\* test, attempt++, checkRateLimit, and then the quota error, the rate-limit
\* sleep, or the fetch with its abort timer.
LoopIter(p, r) ==
    /\ pc[p] = "loop"
    /\ IF ~LoopCondition(attempt[p])
       THEN \* throw lastError || new Error('Search failed after maximum retry attempts')
            /\ pc' = [pc EXCEPT ![p] = "done"]
            /\ outcome' = [outcome EXCEPT ![p] = Rejected("retries_exhausted")]
            /\ UNCHANGED <<requestCount, attempt, deadline, obs>>
       ELSE LET a == NextAttempt(attempt[p])
                chk == CheckRateLimit(requestCount, now)
                seen == [obs[p] EXCEPT
                            !.lastCheck = chk.reason,
                            !.window = IF chk.canProceed
                                       THEN chk.rc.lastSecondReset ELSE 0,
                            !.secondLeft = IF chk.canProceed
                                           THEN RATE_LIMIT_perSecond - chk.rc.second
                                           ELSE 0]
            IN  /\ attempt' = [attempt EXCEPT ![p] = a]
                /\ requestCount' = chk.rc
                /\ IF IsQuotaError(chk)
                   THEN /\ pc' = [pc EXCEPT ![p] = "done"]
                        /\ outcome' = [outcome EXCEPT ![p] =
                              Rejected(IF chk.reason = "monthly" THEN "quota"
                                       ELSE "second_limit")]
                        /\ obs' = [obs EXCEPT ![p] = seen]
                        /\ deadline' = deadline
                   ELSE IF ~chk.canProceed /\ AttemptsRemain(a)
                   THEN /\ pc' = [pc EXCEPT ![p] = "sleep"]
                        /\ deadline' = [deadline EXCEPT ![p] =
                              WakeTime(now, AddJitter(chk.waitTimeMs, r))]
                        /\ obs' = [obs EXCEPT ![p] = [seen EXCEPT !.slept =
                              [cause |-> "second", header |-> <<>>,
                               base |-> chk.waitTimeMs,
                               ms |-> AddJitter(chk.waitTimeMs, r)]]]
                        /\ outcome' = outcome
                   ELSE /\ pc' = [pc EXCEPT ![p] = "fetch"]
                        /\ deadline' = [deadline EXCEPT ![p] = now + FetchTimeout]
                        /\ obs' = [obs EXCEPT ![p] = [seen EXCEPT !.fetches = @ + 1]]
                        /\ outcome' = outcome
    /\ UNCHANGED <<now, ticks, started, ENABLE_SEMANTIC_CACHE, processing,
                   multi, call, db, rows, embInitialized, perplexity>>

\* await sleep(waitTime) settles; continue.
Wake(p) ==
    /\ pc[p] = "sleep"
    /\ now >= deadline[p]
    /\ pc' = [pc EXCEPT ![p] = "loop"]
    /\ deadline' = [deadline EXCEPT ![p] = 0]
    /\ obs' = [obs EXCEPT ![p].slept = NoSleep]
    /\ UNCHANGED <<now, ticks, started, ENABLE_SEMANTIC_CACHE, processing,
                   multi, requestCount, call, attempt, outcome, db, rows,
                   embInitialized, perplexity>>

\* A retryable failure: sleep and continue while attempts remain, else throw.
RetryOrThrow(p, delayMs, r, cause, header, err, remain) ==
    IF remain
    THEN /\ pc' = [pc EXCEPT ![p] = "sleep"]
         /\ deadline' = [deadline EXCEPT ![p] = WakeTime(now, AddJitter(delayMs, r))]
         /\ obs' = [obs EXCEPT ![p].slept =
                       [cause |-> cause, header |-> header, base |-> delayMs,
                        ms |-> AddJitter(delayMs, r)]]
         /\ outcome' = outcome
    ELSE /\ pc' = [pc EXCEPT ![p] = "done"]
         /\ deadline' = [deadline EXCEPT ![p] = 0]
         /\ obs' = obs
         /\ outcome' = [outcome EXCEPT ![p] = Rejected(err)]

\* Variant: the catch retries whatever it catches.
CatchRetriesAll(p, name, err, r) ==
    RetryOrThrow(p, BackoffTimeout(attempt[p]), r, err, <<>>, "timeout",
                 AttemptsRemain(attempt[p]))

\* The catch of the try around fetch: an AbortError is retried with the
\* uncapped backoff; any other error is rethrown.
Catch(p, name, err, r) ==
    IF IsAbortError(name)
    THEN RetryOrThrow(p, BackoffTimeout(attempt[p]), r, err, <<>>, "timeout",
                      AttemptsRemain(attempt[p]))
    ELSE /\ pc' = [pc EXCEPT ![p] = "done"]
         /\ outcome' = [outcome EXCEPT ![p] = Rejected(err)]
         /\ obs' = obs
         /\ deadline' = [deadline EXCEPT ![p] = 0]

\* fetch resolves with status 429.
Fetch429(p, header, r) ==
    /\ pc[p] = "fetch"
    /\ now <= deadline[p]
    /\ RetryOrThrow(p, RetryDelayMs(header, attempt[p]), r, "rate_limited_429",
                    header, "rate_limited_429", AttemptsRemain(attempt[p]))
    /\ UNCHANGED <<now, ticks, started, ENABLE_SEMANTIC_CACHE, processing,
                   multi, requestCount, call, attempt, db, rows,
                   embInitialized, perplexity>>

\* fetch resolves with another non-OK status: throw new Error(...); the catch
\* rethrows it.
FetchHttpError(p, r) ==
    /\ pc[p] = "fetch"
    /\ now <= deadline[p]
    /\ Catch(p, "Error", "http_error", r)
    /\ UNCHANGED <<now, ticks, started, ENABLE_SEMANTIC_CACHE, processing,
                   multi, requestCount, call, attempt, db, rows,
                   embInitialized, perplexity>>

\* fetch rejects with an error that is no AbortError (a TypeError): the catch
\* rethrows it.
FetchNetworkError(p, r) ==
    /\ pc[p] = "fetch"
    /\ now <= deadline[p]
    /\ Catch(p, "TypeError", "network", r)
    /\ UNCHANGED <<now, ticks, started, ENABLE_SEMANTIC_CACHE, processing,
                   multi, requestCount, call, attempt, db, rows,
                   embInitialized, perplexity>>

\* fetch resolves with an OK status; the body is read next (response.json()).
FetchOk(p) ==
    /\ pc[p] = "fetch"
    /\ now <= deadline[p]
    /\ pc' = [pc EXCEPT ![p] = "body"]
    /\ obs' = [obs EXCEPT ![p].okResponses = @ + 1]
    /\ UNCHANGED <<now, ticks, started, ENABLE_SEMANTIC_CACHE, processing,
                   multi, requestCount, call, attempt, deadline, outcome, db,
                   rows, embInitialized, perplexity>>

\* The abort timer fires while fetch or response.json() is pending: AbortError.
Abort(p, r) ==
    /\ pc[p] \in {"fetch", "body"}
    /\ now >= deadline[p]
    /\ Catch(p, "AbortError", "timeout", r)
    /\ UNCHANGED <<now, ticks, started, ENABLE_SEMANTIC_CACHE, processing,
                   multi, requestCount, call, attempt, db, rows,
                   embInitialized, perplexity>>

\* response.json() rejects (the body is no JSON, a SyntaxError): the catch
\* rethrows it.
BodySyntaxError(p, r) ==
    /\ pc[p] = "body"
    /\ now <= deadline[p]
    /\ Catch(p, "SyntaxError", "bad_body", r)
    /\ UNCHANGED <<now, ticks, started, ENABLE_SEMANTIC_CACHE, processing,
                   multi, requestCount, call, attempt, db, rows,
                   embInitialized, perplexity>>

\* search() hands no result to the cache.
CallsStoreNever(p) == FALSE

\* Variant: search() stores its result whatever the feature flag says.
CallsStoreUnflagged(p) == ~multi[p].active

\* search() stores the formatted result when the cache is switched on; the
\* multi-link tool calls performBraveSearch directly and has no cache.
CallsStore(p) == ENABLE_SEMANTIC_CACHE /\ ~multi[p].active

\* response.json() resolves: incrementRateLimit, the raw text is returned, and
\* search() parses, deduplicates and formats it; with the cache on it calls
\* store, which runs initialize() and then awaits embed.
BodyOk(p, kind, how) ==
    /\ pc[p] = "body"
    /\ now <= deadline[p]
    /\ requestCount' = IncrementRateLimit(requestCount)
    /\ deadline' = [deadline EXCEPT ![p] = 0]
    /\ LET formatted == FormatPage(call[p].query, kind, obs[p].page)
           ini == Initialize(db, how)
       IN  IF ~CallsStore(p)
           THEN /\ pc' = [pc EXCEPT ![p] = "done"]
                /\ outcome' = [outcome EXCEPT ![p] = Resolved("fresh", formatted)]
                /\ obs' = [obs EXCEPT ![p].commits = @ + 1]
                /\ db' = db
           ELSE /\ db' = ini.db
                /\ IF ini.throws
                   THEN /\ pc' = [pc EXCEPT ![p] = "done"]
                        /\ outcome' = [outcome EXCEPT ![p] = Rejected("cache_init")]
                        /\ obs' = [obs EXCEPT ![p].commits = @ + 1,
                                              ![p].stores = @ + 1,
                                              ![p].storeThrew = TRUE]
                   ELSE /\ pc' = [pc EXCEPT ![p] = "store"]
                        /\ outcome' = [outcome EXCEPT ![p] = Resolved("fresh", formatted)]
                        /\ obs' = [obs EXCEPT ![p].commits = @ + 1,
                                              ![p].stores = @ + 1]
    /\ UNCHANGED <<now, ticks, started, ENABLE_SEMANTIC_CACHE, processing,
                   multi, call, attempt, rows, embInitialized, perplexity>>

\* Variant: store writing its row in two statements with an await between
\* them: first the query, its embedding and the type, later the results, the
\* timestamp and the ttl.
StoreResolveInTwoWrites(p, how, insertOk) ==
    /\ pc[p] = "store"
    /\ IF obs[p].inserts = 0
       THEN /\ rows' = Append(rows, [query |-> call[p].query,
                                     query_embedding |-> Embedding(call[p].query),
                                     results |-> NoPayload,
                                     search_type |-> call[p].searchType,
                                     timestamp |-> now,
                                     ttl |-> 0])
            /\ obs' = [obs EXCEPT ![p].inserts = 1]
            /\ pc' = pc
       ELSE /\ rows' = [i \in 1..Len(rows) |->
                          IF rows[i].results = NoPayload
                          THEN [rows[i] EXCEPT !.results = outcome[p].payload,
                                               !.ttl = TtlOf(CACHE_TTL_SECONDS)]
                          ELSE rows[i]]
            /\ obs' = obs
            /\ pc' = [pc EXCEPT ![p] = "done"]
    /\ UNCHANGED <<now, ticks, started, ENABLE_SEMANTIC_CACHE, processing,
                   multi, requestCount, call, attempt, deadline, outcome, db,
                   embInitialized, perplexity>>

\* store after its embed() settles: the INSERT, with every error caught; then
\* search() returns the formatted text.
StoreResolve(p, how, insertOk) ==
    /\ pc[p] = "store"
    /\ LET e == Embed(embInitialized, how, call[p].query)
           inserted == ~e.throws /\ db = "open" /\ insertOk
           row == [query |-> call[p].query,
                   query_embedding |-> e.vec,
                   results |-> outcome[p].payload,
                   search_type |-> call[p].searchType,
                   timestamp |-> now,
                   ttl |-> TtlOf(CACHE_TTL_SECONDS)]
       IN  /\ embInitialized' = e.initialized
           /\ rows' = IF inserted THEN Append(rows, row) ELSE rows
           /\ obs' = [obs EXCEPT ![p].inserts = IF inserted THEN @ + 1 ELSE @]
    /\ pc' = [pc EXCEPT ![p] = "done"]
    /\ UNCHANGED <<now, ticks, started, ENABLE_SEMANTIC_CACHE, processing,
                   multi, requestCount, call, attempt, deadline, outcome, db,
                   perplexity>>

\* The tool result has been handed to the client.
Return(p) ==
    /\ pc[p] = "done"
    /\ ~multi[p].active
    /\ pc' = [pc EXCEPT ![p] = "idle"]
    /\ call' = [call EXCEPT ![p] = NoCall]
    /\ attempt' = [attempt EXCEPT ![p] = 0]
    /\ deadline' = [deadline EXCEPT ![p] = 0]
    /\ outcome' = [outcome EXCEPT ![p] = NoOutcome]
    /\ obs' = [obs EXCEPT ![p] = Obs0]
    /\ multi' = [multi EXCEPT ![p] = NoMulti]
    /\ UNCHANGED <<now, ticks, started, ENABLE_SEMANTIC_CACHE, processing,
                   requestCount, db, rows, embInitialized, perplexity>>

(***************************************************************************)
(* perplexityResearchTools.ts: enforceRateLimit, performDeepResearch.      *)
(* A caller is idle, in the sleep of enforceRateLimit (wait), awaiting     *)
(* fetch (fetch), in the sleep before a retry (sleep), or done.            *)
(***************************************************************************)

\* addJitter(delayMs) of the Perplexity tool, Math.random() = r / 1000.
PerplexityAddJitter(delayMs, r) ==
    LET jitter100000 == delayMs * PERPLEXITY_jitterFactorPct * (r - 500)
    IN  delayMs + (2 * jitter100000 + 100000) \div 200000

\* initialDelayMs * Math.pow(backoffMultiplier, attempt - 1)
PerplexityBackoff(a) ==
    PERPLEXITY_initialDelayMs * Pow(PERPLEXITY_backoffMultiplier, a - 1)

\* retryAfter ? parseInt(retryAfter) * 1000 : Math.min(backoff, maxDelayMs)
PerplexityRetryDelayMs(header, a) ==
    IF header # <<>> THEN header[1] * 1000
    ELSE Min(PerplexityBackoff(a), PERPLEXITY_maxDelayMs)

\* attempt++ and the fetch with its abort timer, at time t.
IssueRequest(px, p, t) ==
    [px EXCEPT !.pc[p] = "fetch",
               !.attempt[p] = @ + 1,
               !.deadline[p] = t + PERPLEXITY_TIMEOUT_MS \div QuantumMs,
               !.prevIssued = px.lastIssued,
               !.lastIssued = t]

\* sleep(addJitter(delayMs)) and continue while attempts remain, else throw.
ResearchRetryOrThrow(px, p, t, delayMs, r, err) ==
    IF px.attempt[p] < PERPLEXITY_maxAttempts
    THEN [px EXCEPT !.pc[p] = "sleep",
                    !.deadline[p] = WakeTime(t, PerplexityAddJitter(delayMs, r))]
    ELSE [px EXCEPT !.pc[p] = "done", !.deadline[p] = 0, !.error[p] = err]

\* executeDeepResearch -> performDeepResearch -> enforceRateLimit: the sleep
\* when the last request is less than MIN_REQUEST_INTERVAL_MS old; otherwise
\* lastRequestTime is set and the first request is issued.
ResearchStart(p) ==
    /\ perplexity.pc[p] = "idle"
    /\ started < MaxSearches
    /\ started' = started + 1
    /\ LET timeSinceLastRequest == now - perplexity.lastRequestTime
       IN  IF timeSinceLastRequest < MIN_REQUEST_INTERVAL_MS \div QuantumMs
           THEN perplexity' =
                  [perplexity EXCEPT
                     !.pc[p] = "wait",
                     !.deadline[p] =
                         WakeTime(now, MIN_REQUEST_INTERVAL_MS
                                          - timeSinceLastRequest * QuantumMs)]
           ELSE perplexity' =
                  IssueRequest([perplexity EXCEPT !.lastRequestTime = now], p, now)
    /\ UNCHANGED <<now, ticks, ENABLE_SEMANTIC_CACHE, requestCount, pc, call,
                   attempt, deadline, outcome, db, rows, embInitialized, obs,
                   processing, multi>>

\* The sleep of enforceRateLimit is over: lastRequestTime is set and the
\* first request is issued.
ResearchLimitWake(p) ==
    /\ perplexity.pc[p] = "wait"
    /\ now >= perplexity.deadline[p]
    /\ perplexity' =
          IssueRequest([perplexity EXCEPT !.lastRequestTime = now], p, now)
    /\ UNCHANGED <<now, ticks, started, ENABLE_SEMANTIC_CACHE, requestCount, pc,
                   call, attempt, deadline, outcome, db, rows, embInitialized,
                   obs, processing, multi>>

\* fetch resolves with status 429.
Research429(p, header, r) ==
    /\ perplexity.pc[p] = "fetch"
    /\ now <= perplexity.deadline[p]
    /\ perplexity' =
          ResearchRetryOrThrow(perplexity, p, now,
              PerplexityRetryDelayMs(header, perplexity.attempt[p]), r,
              "rate_limited_429")
    /\ UNCHANGED <<now, ticks, started, ENABLE_SEMANTIC_CACHE, requestCount, pc,
                   call, attempt, deadline, outcome, db, rows, embInitialized,
                   obs, processing, multi>>

\* fetch rejects with a network error (ECONNRESET, ETIMEDOUT, 'network'), or
\* the abort timer fires: retried with the uncapped backoff.
ResearchTransientError(p, err, r) ==
    /\ perplexity.pc[p] = "fetch"
    /\ IF err = "timeout" THEN now >= perplexity.deadline[p]
                          ELSE now <= perplexity.deadline[p]
    /\ perplexity' =
          ResearchRetryOrThrow(perplexity, p, now,
              PerplexityBackoff(perplexity.attempt[p]), r, err)
    /\ UNCHANGED <<now, ticks, started, ENABLE_SEMANTIC_CACHE, requestCount, pc,
                   call, attempt, deadline, outcome, db, rows, embInitialized,
                   obs, processing, multi>>

\* The response is OK and is returned, or it is another error, which is
\* rethrown.
ResearchSettles(p, err) ==
    /\ perplexity.pc[p] = "fetch"
    /\ now <= perplexity.deadline[p]
    /\ perplexity' = [perplexity EXCEPT !.pc[p] = "done", !.deadline[p] = 0,
                                        !.error[p] = err]
    /\ UNCHANGED <<now, ticks, started, ENABLE_SEMANTIC_CACHE, requestCount, pc,
                   call, attempt, deadline, outcome, db, rows, embInitialized,
                   obs, processing, multi>>

\* The sleep before a retry is over: continue, attempt++, fetch.
ResearchRetryWake(p) ==
    /\ perplexity.pc[p] = "sleep"
    /\ now >= perplexity.deadline[p]
    /\ perplexity' = IssueRequest(perplexity, p, now)
    /\ UNCHANGED <<now, ticks, started, ENABLE_SEMANTIC_CACHE, requestCount, pc,
                   call, attempt, deadline, outcome, db, rows, embInitialized,
                   obs, processing, multi>>

\* The tool result has been handed to the client.
ResearchReturn(p) ==
    /\ perplexity.pc[p] = "done"
    /\ perplexity' = [perplexity EXCEPT !.pc[p] = "idle", !.attempt[p] = 0,
                                        !.error[p] = ""]
    /\ UNCHANGED <<now, ticks, started, ENABLE_SEMANTIC_CACHE, requestCount, pc,
                   call, attempt, deadline, outcome, db, rows, embInitialized,
                   obs, processing, multi>>

(***************************************************************************)
(* braveSearchTools.ts: executeMultiLinkSearch.                            *)
(***************************************************************************)

\* The queries of a multi-link search: two searchable ones and one of more
\* than 400 characters.
MultiQueries == {"qa", "qb", "long"}

\* The arguments: up to MaxQueries queries.
QueryLists == UNION {[1..n -> MultiQueries] : n \in 0..MaxQueries}

\* queries.length === 0, or a query with query.length > 400
InvalidQueries(queries) ==
    Len(queries) = 0 \/ \E k \in 1..Len(queries) : queries[k] = "long"

\* if (i < queries.length - 1), i counted from 1 here
MoreQueries(i, n) == i < n

\* Variant: the loop without its pause.
PauseEndNone(t) == t

\* await sleep(1100)
PauseEnd(t) == WakeTime(t, MULTI_LINK_PAUSE_MS)

\* executeMultiLinkSearch(args) up to its first await: the validation, then
\* performBraveSearchForQuery for the first query.
MultiStart(p, queries) ==
    /\ pc[p] = "idle"
    /\ started < MaxSearches
    /\ started' = started + 1
    /\ attempt' = [attempt EXCEPT ![p] = 0]
    /\ obs' = [obs EXCEPT ![p] = Obs0]
    /\ IF InvalidQueries(queries)
       THEN /\ pc' = [pc EXCEPT ![p] = "done"]
            /\ outcome' = [outcome EXCEPT ![p] =
                  [kind |-> "invalid", error |-> "invalid_queries",
                   payload |-> NoPayload, isError |-> TRUE]]
            /\ call' = [call EXCEPT ![p] = NoCall]
            /\ multi' = [multi EXCEPT ![p] = [NoMulti EXCEPT !.queries = queries]]
       ELSE /\ pc' = [pc EXCEPT ![p] = "loop"]
            /\ outcome' = [outcome EXCEPT ![p] = NoOutcome]
            /\ call' = [call EXCEPT ![p] =
                  [query |-> queries[1], searchType |-> "multi"]]
            /\ multi' = [multi EXCEPT ![p] =
                  [active |-> TRUE, queries |-> queries, i |-> 1,
                   searchResults |-> <<>>, finishedAt |-> 0]]
    /\ UNCHANGED <<now, ticks, ENABLE_SEMANTIC_CACHE, processing,
                   requestCount, deadline, db, rows, embInitialized,
                   perplexity>>

\* performBraveSearchForQuery settles, with the text or with the error as a
\* text: the section is pushed; then the pause before the next query, or the
\* combined output is returned.
MultiCollect(p) ==
    /\ pc[p] = "done"
    /\ multi[p].active
    /\ LET section == [query |-> call[p].query, error |-> outcome[p].error]
           sections == Append(multi[p].searchResults, section)
       IN  IF MoreQueries(multi[p].i, Len(multi[p].queries))
           THEN /\ pc' = [pc EXCEPT ![p] = "pause"]
                /\ deadline' = [deadline EXCEPT ![p] = PauseEnd(now)]
                /\ outcome' = [outcome EXCEPT ![p] = NoOutcome]
                /\ multi' = [multi EXCEPT ![p].searchResults = sections,
                                          ![p].finishedAt = now]
           ELSE /\ pc' = pc
                /\ deadline' = deadline
                /\ outcome' = [outcome EXCEPT ![p] = Resolved("multi", NoPayload)]
                /\ multi' = [multi EXCEPT ![p].searchResults = sections,
                                          ![p].finishedAt = now,
                                          ![p].active = FALSE]
    /\ UNCHANGED <<now, ticks, started, ENABLE_SEMANTIC_CACHE, processing,
                   requestCount, call, attempt, db, rows, embInitialized, obs,
                   perplexity>>

\* The pause is over: the next pass of the for loop calls
\* performBraveSearchForQuery for the next query.
MultiResume(p) ==
    /\ pc[p] = "pause"
    /\ now >= deadline[p]
    /\ pc' = [pc EXCEPT ![p] = "loop"]
    /\ deadline' = [deadline EXCEPT ![p] = 0]
    /\ attempt' = [attempt EXCEPT ![p] = 0]
    /\ obs' = [obs EXCEPT ![p] = Obs0]
    /\ multi' = [multi EXCEPT ![p].i = @ + 1]
    /\ call' = [call EXCEPT ![p] =
          [query |-> multi[p].queries[multi[p].i + 1], searchType |-> "multi"]]
    /\ UNCHANGED <<now, ticks, started, ENABLE_SEMANTIC_CACHE, processing,
                   requestCount, outcome, db, rows, embInitialized, perplexity>>

\* The steps of executeMultiLinkSearch around its searches.
MultiSteps(P, L) ==
    \/ \E p \in P, queries \in L : MultiStart(p, queries)
    \/ \E p \in P : MultiCollect(p)
    \/ \E p \in P : MultiResume(p)

\* close(): the database handle is dropped (the file keeps its rows).
Close ==
    /\ db = "open"
    /\ db' = "null"
    /\ UNCHANGED <<now, ticks, started, ENABLE_SEMANTIC_CACHE, processing,
                   multi, requestCount, pc, call, attempt, deadline, outcome,
                   rows, embInitialized, obs, perplexity>>

\* The time-to-live values a caller passes to store(): the configured
\* CACHE_TTL_SECONDS, or zero.
StoreTtls == {0, CACHE_TTL_SECONDS}

\* The texts a caller of the cache stores and looks up: two that are similar
\* ("qa", "qb"), one unlike them ("qc"), one whose embedding has magnitude
\* zero ("qz").
StoredQueries == {"qa", "qb", "qz"}
LookupQueries == {"qa", "qc", "qz"}

\* semanticCache.store(query, searchType, results, ttlSeconds) called by one
\* caller and run to its end: initialize(), embed, the INSERT.
CacheStore(p, q, st, ttlSeconds, ini, how, insertOk) ==
    /\ pc[p] = "idle"
    /\ started < MaxSearches
    /\ started' = started + 1
    /\ LET i == Initialize(db, ini)
           e == IF i.throws
                THEN [initialized |-> embInitialized, throws |-> TRUE, vec |-> <<>>]
                ELSE Embed(embInitialized, how, q)
           inserted == ~i.throws /\ ~e.throws /\ i.db = "open" /\ insertOk
           row == [query |-> q,
                   query_embedding |-> e.vec,
                   results |-> FormatResults(q, "results"),
                   search_type |-> st,
                   timestamp |-> now,
                   ttl |-> TtlOf(ttlSeconds)]
       IN  /\ db' = i.db
           /\ embInitialized' = e.initialized
           /\ rows' = IF inserted THEN Append(rows, row) ELSE rows
           /\ obs' = [obs EXCEPT
                         ![p].inserts = IF inserted THEN @ + 1 ELSE @,
                         ![p].storeThrew = i.throws,
                         ![p].deleted = "",
                         ![p].stored = [query |-> q, searchType |-> st,
                                        ttl |-> TtlOf(ttlSeconds), at |-> now,
                                        inserted |-> inserted],
                         ![p].lookup = NoLookup]
    /\ UNCHANGED <<now, ticks, ENABLE_SEMANTIC_CACHE, processing, multi,
                   requestCount, pc, call, attempt, deadline, outcome,
                   perplexity>>

\* semanticCache.findSimilar(query, searchType) called by one caller and run
\* to its end: initialize(), embed, cleanupExpired, the SELECT, the scan.
CacheFind(p, q, st, ini, how, deleteOk, selectOk, tie) ==
    /\ pc[p] = "idle"
    /\ LET i == Initialize(db, ini)
           e == IF i.throws
                THEN [initialized |-> embInitialized, throws |-> TRUE, vec |-> <<>>]
                ELSE Embed(embInitialized, how, q)
           cleaned == IF e.throws THEN rows
                      ELSE CleanupExpired(i.db, rows, now, deleteOk)
           selectThrows == i.db = "null" \/ ~selectOk
           best == IF e.throws \/ selectThrows THEN NoMatch
                   ELSE BestMatch(SelectCandidates(cleaned, st, tie), e.vec)
           threw == e.throws \/ selectThrows \/ best.throws
           found == ~threw /\ best.found
       IN  /\ db' = i.db
           /\ embInitialized' = e.initialized
           /\ rows' = cleaned
           /\ obs' = [obs EXCEPT
                  ![p].deleted = IF e.throws \/ i.db = "null" THEN ""
                                 ELSE IF deleteOk THEN "purged" ELSE "failed",
                  ![p].lookup =
                  [done |-> TRUE, query |-> q, searchType |-> st, at |-> now,
                   tie |-> tie, threw |-> threw, found |-> found,
                   hitQuery |-> IF found THEN best.row.query ELSE "",
                   hitType |-> IF found THEN best.row.search_type ELSE "",
                   hitTimestamp |-> IF found THEN best.row.timestamp ELSE 0,
                   hitTtl |-> IF found THEN best.row.ttl ELSE 0,
                   similarity |-> IF found THEN best.similarity ELSE SimZero]]
    /\ UNCHANGED <<now, ticks, started, ENABLE_SEMANTIC_CACHE, processing,
                   multi, requestCount, pc, call, attempt, deadline, outcome,
                   perplexity>>

\* Variant: clear() without its DELETE.
ClearRowsNone(dbv, rs, deleteOk) == rs

\* clear(): nothing without a database; DELETE FROM search_cache, and a
\* failing DELETE is caught.
ClearRows(dbv, rs, deleteOk) ==
    IF dbv = "null" \/ ~deleteOk THEN rs ELSE <<>>

\* getSize(): 0 without a database, SELECT COUNT(*), and 0 when that throws.
GetSize(dbv, rs, countOk) ==
    IF dbv = "null" THEN 0 ELSE IF countOk THEN Len(rs) ELSE 0

\* semanticCache.clear() called by one caller.
CacheClear(p, deleteOk) ==
    /\ pc[p] = "idle"
    /\ rows' = ClearRows(db, rows, deleteOk)
    /\ obs' = [obs EXCEPT
                  ![p].deleted = IF db = "null" THEN "no_db"
                                 ELSE IF deleteOk THEN "cleared" ELSE "failed",
                  ![p].stored = NoStored,
                  ![p].lookup = NoLookup]
    /\ UNCHANGED <<now, ticks, started, ENABLE_SEMANTIC_CACHE, processing,
                   multi, requestCount, pc, call, attempt, deadline, outcome,
                   db, embInitialized, perplexity>>

\* The times at which something changes by itself: a sleep or an abort timer
\* ends, a rate-limit window ends, a cache row expires.
Deadlines ==
    {deadline[p] : p \in {x \in Procs : pc[x] \in {"sleep", "fetch", "body",
                                                   "pause"}}}
    \cup {perplexity.deadline[p] :
            p \in {x \in Procs : perplexity.pc[x] \in {"wait", "fetch", "sleep"}}}
    \cup {requestCount.lastSecondReset + SecondWindow,
          requestCount.lastMonthReset + MonthWindow}
    \cup {rows[i].timestamp + rows[i].ttl + 1 : i \in 1..Len(rows)}

\* Time passes: up to the next deadline.
TickToDeadline ==
    /\ ticks < MaxTicks
    /\ \E d \in Deadlines :
          /\ d > now
          /\ \A e \in Deadlines : e > now => d <= e
          /\ now' = d
    /\ ticks' = ticks + 1
    /\ UNCHANGED <<started, ENABLE_SEMANTIC_CACHE, processing, multi,
                   requestCount, pc, call, attempt, deadline, outcome, db,
                   rows, embInitialized, obs, perplexity>>

\* The steps of a tool call whose upstream requests are answered at once, for
\* the calls P with queries Q, search types T and values R of Math.random().
CallSteps(P, Q, T, R) ==
    \/ \E p \in P, q \in Q, st \in T, how \in InitializeOutcomes :
          StartSearch(p, q, st, how)
    \/ \E p \in P, r \in R : LoopIter(p, r)
    \/ \E p \in P : Wake(p)
    \/ \E p \in P, r \in R : FetchHttpError(p, r)
    \/ \E p \in P, r \in R : FetchNetworkError(p, r)
    \/ \E p \in P : FetchOk(p)
    \/ \E p \in P, r \in R : BodySyntaxError(p, r)
    \/ \E p \in P, kind \in BodyKinds, how \in InitializeOutcomes : BodyOk(p, kind, how)
    \/ \E p \in P : Return(p)
    \/ TickToDeadline

\* The retryable failures of an upstream request: HTTP 429 and the timeout.
RetrySteps(P, R, H) ==
    \/ \E p \in P, header \in H, r \in R : Fetch429(p, header, r)
    \/ \E p \in P, r \in R : Abort(p, r)

\* The steps of the semantic cache.
CacheSteps(P) ==
    \/ \E p \in P, how \in EmbedOutcomes, deleteOk \in BOOLEAN,
          selectOk \in BOOLEAN, tie \in TieOrders :
          LookupResolve(p, how, deleteOk, selectOk, tie)
    \/ \E p \in P, how \in EmbedOutcomes, insertOk \in BOOLEAN :
          StoreResolve(p, how, insertOk)

Next ==
    \/ CallSteps(Procs, Queries, SearchTypes, Randoms)
    \/ RetrySteps(Procs, Randoms, RetryAfterHeaders)
    \/ CacheSteps(Procs)
    \/ Close

\* The whole tool: concurrent calls, cache on or off.
Spec == Init /\ [][Next]_vars

\* The cache switched off (ENABLE_SEMANTIC_CACHE unset): every call goes to
\* performBraveSearch, which reads neither the query nor the search type.
InitFetch == Init /\ ~ENABLE_SEMANTIC_CACHE
NextFetch == CallSteps(Procs, {"qa"}, {"web"}, Randoms) \/ RetrySteps(Procs, Randoms, RetryAfterHeaders)
SpecFetch == InitFetch /\ [][NextFetch]_vars

\* The cache switched on: one web search at a time, made by a fresh process,
\* with an upstream that answers every request at once (no 429, no timeout),
\* with the jitter of the rate-limit wait left out (Math.random() = 0.5), and
\* with a database that stays open once it is opened (close() is not called).
(***************************************************************************)
(* embeddingService.ts, await by await.  A caller is in initialize(),      *)
(* called directly (init_load, init_warm) or through embed() (embed_load,  *)
(* embed_warm): awaiting the load of the pipeline or the warm-up           *)
(* inference; or, in embed(), awaiting the inference of its own text       *)
(* (embed_infer).                                                          *)
(***************************************************************************)

\* The entry points of EmbeddingService.
EmbeddingEntries == {"initialize", "embed"}

\* The position that awaits the load, by entry point.
LoadPc(entry) == IF entry = "initialize" THEN "init_load" ELSE "embed_load"

\* The position that awaits the warm-up, given the one that awaited the load.
WarmPc(loadPc) == IF loadPc = "init_load" THEN "init_warm" ELSE "embed_warm"

\* if (this.initialized) return;   /   if (!this.initialized) await initialize()
AlreadyInitialized(initialized) == initialized

\* initialize() or embed(text) is called and runs to its first await: with
\* the flag set, initialize() returns and embed() starts its inference;
\* otherwise pipeline(...) is called.
EmbeddingCall(p, entry, text) ==
    /\ pc[p] = "idle"
    /\ started < MaxSearches
    /\ started' = started + 1
    /\ call' = [call EXCEPT ![p] = [query |-> text, searchType |-> entry]]
    /\ outcome' = [outcome EXCEPT ![p] = NoOutcome]
    /\ IF ~AlreadyInitialized(embInitialized)
       THEN pc' = [pc EXCEPT ![p] = LoadPc(entry)]
       ELSE IF entry = "initialize"
       THEN pc' = [pc EXCEPT ![p] = "done"]
       ELSE pc' = [pc EXCEPT ![p] = "embed_infer"]
    /\ UNCHANGED <<now, ticks, ENABLE_SEMANTIC_CACHE, processing, multi,
                   requestCount, attempt, deadline, db, rows, embInitialized,
                   obs, perplexity>>

\* await pipeline(...) settles: this.pipeline is assigned, initialized is
\* set and the warm-up embed() starts its inference; or the load fails and
\* initialize() rethrows.
LoadSettles(p, ok) ==
    /\ pc[p] \in {"init_load", "embed_load"}
    /\ IF ok
       THEN /\ embInitialized' = TRUE
            /\ pc' = [pc EXCEPT ![p] = WarmPc(pc[p])]
            /\ obs' = [obs EXCEPT ![p].loads = @ + 1, ![p].warmups = @ + 1]
            /\ outcome' = outcome
       ELSE /\ embInitialized' = embInitialized
            /\ pc' = [pc EXCEPT ![p] = "done"]
            /\ obs' = obs
            /\ outcome' = [outcome EXCEPT ![p] = Rejected("model_load")]
    /\ UNCHANGED <<now, ticks, started, ENABLE_SEMANTIC_CACHE, processing,
                   multi, requestCount, call, attempt, deadline, db, rows,
                   perplexity>>

\* The warm-up inference settles: initialize() returns, and embed() goes on
\* to the inference of its text; or it fails and the error is rethrown.
WarmupSettles(p, ok) ==
    /\ pc[p] \in {"init_warm", "embed_warm"}
    /\ IF ~ok
       THEN /\ pc' = [pc EXCEPT ![p] = "done"]
            /\ outcome' = [outcome EXCEPT ![p] = Rejected("inference")]
       ELSE IF pc[p] = "init_warm"
       THEN /\ pc' = [pc EXCEPT ![p] = "done"]
            /\ outcome' = [outcome EXCEPT ![p] = Resolved("initialized", NoPayload)]
       ELSE /\ pc' = [pc EXCEPT ![p] = "embed_infer"]
            /\ outcome' = outcome
    /\ UNCHANGED <<now, ticks, started, ENABLE_SEMANTIC_CACHE, processing,
                   multi, requestCount, call, attempt, deadline, db, rows,
                   embInitialized, obs, perplexity>>

\* The inference of embed(text) settles: output.data is returned, or the
\* error is rethrown.
InferenceSettles(p, ok) ==
    /\ pc[p] = "embed_infer"
    /\ pc' = [pc EXCEPT ![p] = "done"]
    /\ outcome' = [outcome EXCEPT ![p] =
          IF ok THEN Resolved("embedding", NoPayload) ELSE Rejected("inference")]
    /\ UNCHANGED <<now, ticks, started, ENABLE_SEMANTIC_CACHE, processing,
                   multi, requestCount, call, attempt, deadline, db, rows,
                   embInitialized, obs, perplexity>>

\* The caller has its result and may call again; what it has loaded stays.
EmbeddingReturn(p) ==
    /\ pc[p] = "done"
    /\ pc' = [pc EXCEPT ![p] = "idle"]
    /\ call' = [call EXCEPT ![p] = NoCall]
    /\ outcome' = [outcome EXCEPT ![p] = NoOutcome]
    /\ UNCHANGED <<now, ticks, started, ENABLE_SEMANTIC_CACHE, processing,
                   multi, requestCount, attempt, deadline, db, rows,
                   embInitialized, obs, perplexity>>

\* Concurrent callers of executeDeepResearch.
ResearchSteps(P, R, H) ==
    \/ \E p \in P : ResearchStart(p)
    \/ \E p \in P : ResearchLimitWake(p)
    \/ \E p \in P, header \in H, r \in R : Research429(p, header, r)
    \/ \E p \in P, err \in {"network", "timeout"}, r \in R :
          ResearchTransientError(p, err, r)
    \/ \E p \in P, err \in {"", "http_error"} : ResearchSettles(p, err)
    \/ \E p \in P : ResearchRetryWake(p)
    \/ \E p \in P : ResearchReturn(p)
NextResearch ==
    \/ ResearchSteps(Procs, Randoms, RetryAfterHeaders)
    \/ TickToDeadline
SpecResearch == InitFetch /\ [][NextResearch]_vars

\* One caller of executeMultiLinkSearch, the cache off.
NextMulti ==
    \/ MultiSteps({"s1"}, QueryLists)
    \/ CallSteps({"s1"}, {"qa"}, {"web"}, {500})
    \/ RetrySteps({"s1"}, {500}, RetryAfterHeaders)
SpecMulti == InitFetch /\ [][NextMulti]_vars

\* One caller with the cache off, the provider sending Retry-After values up
\* to 12 seconds.
DelayHeaders == RetryAfterHeaders \cup {<<12>>}
NextDelay ==
    \/ CallSteps({"s1"}, {"qa"}, {"web"}, Randoms)
    \/ RetrySteps({"s1"}, Randoms, DelayHeaders)
SpecDelay == InitFetch /\ [][NextDelay]_vars

InitCache == Init /\ ENABLE_SEMANTIC_CACHE /\ requestCount.month = 0
NextCache == CallSteps({"s1"}, Queries, {"web"}, {500}) \/ CacheSteps({"s1"})
SpecCache == InitCache /\ [][NextCache]_vars

\* The cache used directly by the callers P: stores of the texts Q and lookups
\* of the texts L, under the search types T, with the times-to-live Ttls and
\* the outcomes D of the purge's DELETE.
CacheCalls(P, Q, L, T, Ttls, I, H, D) ==
    \/ \E p \in P, q \in Q, st \in T, ttl \in Ttls, ini \in I, how \in H,
          insertOk \in BOOLEAN :
          CacheStore(p, q, st, ttl, ini, how, insertOk)
    \/ \E p \in P, q \in L, st \in T, ini \in I, how \in H,
          deleteOk \in D, selectOk \in BOOLEAN, tie \in TieOrders :
          CacheFind(p, q, st, ini, how, deleteOk, selectOk, tie)

\* The scan: stores and lookups of both search types within one instant, with
\* the configured time-to-live, a database that opens and a model that works;
\* no row expires within the instant, and the purge has nothing to delete.
NextScan ==
    CacheCalls({"s1"}, StoredQueries, LookupQueries, SearchTypes,
               {CACHE_TTL_SECONDS}, {"ok"}, {"ok"}, {TRUE})
SpecScan == InitCache /\ [][NextScan]_vars

\* The expiry: web stores with either time-to-live and web lookups, as time
\* passes.
NextExpiry ==
    \/ CacheCalls({"s1"}, {"qa", "qb"}, {"qa"}, {"web"}, StoreTtls, {"ok"}, {"ok"},
                  BOOLEAN)
    \/ TickToDeadline
SpecExpiry == InitCache /\ [][NextExpiry]_vars

\* The rows of the cache: web and code stores of one text with either
\* time-to-live, web lookups and clear(), as time passes; the INSERT and the
\* DELETEs can fail.
NextRows ==
    \/ \E st \in SearchTypes, ttl \in StoreTtls, insertOk \in BOOLEAN :
          CacheStore("s1", "qa", st, ttl, "ok", "ok", insertOk)
    \/ \E deleteOk \in BOOLEAN, tie \in TieOrders :
          CacheFind("s1", "qa", "web", "ok", "ok", deleteOk, TRUE, tie)
    \/ \E deleteOk \in BOOLEAN : CacheClear("s1", deleteOk)
    \/ TickToDeadline
SpecRows == InitCache /\ [][NextRows]_vars

\* A row that an earlier run of the server has left in the database file.
StoredRow(q, st, t) ==
    [query |-> q,
     query_embedding |-> Embedding(q),
     results |-> FormatResults(q, "results"),
     search_type |-> st,
     timestamp |-> t,
     ttl |-> TtlOf(CACHE_TTL_SECONDS)]

\* The database files of the scan limit: one web row of the text "qa", stored
\* at time 0 or 1, and after it one row fewer than the SELECT's limit, or as
\* many as the limit, of web rows of one other text stored at time 1.
FilledCaches ==
    {<<StoredRow("qa", "web", t)>> \o [i \in 1..n |-> StoredRow(fq, "web", 1)] :
        t \in {0, 1}, fq \in {"qb", "qz"}, n \in {ScanLimit - 1, ScanLimit}}

\* The server starts at time 2 on a database file that is already filled.
InitFilled ==
    /\ now = 2
    /\ requestCount = NewRequestCount(0)
    /\ ticks = 0
    /\ started = 0
    /\ ENABLE_SEMANTIC_CACHE = TRUE
    /\ pc = [p \in Procs |-> "idle"]
    /\ call = [p \in Procs |-> NoCall]
    /\ attempt = [p \in Procs |-> 0]
    /\ deadline = [p \in Procs |-> 0]
    /\ outcome = [p \in Procs |-> NoOutcome]
    /\ db = "null"
    /\ rows \in FilledCaches
    /\ embInitialized = FALSE
    /\ obs = [p \in Procs |-> Obs0]
    /\ processing = NoProcessing
    /\ multi = [p \in Procs |-> NoMulti]
    /\ perplexity = NoPerplexity(now)

\* The server starts at time 2 on the database file rs, with the cache
\* switched on or off.
InitFile(rs, flag) ==
    /\ now = 2
    /\ requestCount = NewRequestCount(0)
    /\ ticks = 0
    /\ started = 0
    /\ ENABLE_SEMANTIC_CACHE = flag
    /\ pc = [p \in Procs |-> "idle"]
    /\ call = [p \in Procs |-> NoCall]
    /\ attempt = [p \in Procs |-> 0]
    /\ deadline = [p \in Procs |-> 0]
    /\ outcome = [p \in Procs |-> NoOutcome]
    /\ db = "null"
    /\ rows = rs
    /\ embInitialized = FALSE
    /\ obs = [p \in Procs |-> Obs0]
    /\ processing = NoProcessing
    /\ multi = [p \in Procs |-> NoMulti]
    /\ perplexity = NoPerplexity(now)

\* The cache switched off, on a database file that an earlier run with the
\* cache on has left: one live row of the text that is searched.
LeftRows == <<StoredRow("qa", "web", 0)>>
InitOff == InitFile(LeftRows, FALSE)
NextOff ==
    \/ CallSteps(Procs, {"qa"}, {"web"}, {500})
    \/ RetrySteps(Procs, {500}, {<<>>})
SpecOff == InitOff /\ [][NextOff]_vars

\* A row written with an embedding model of another dimension.
OtherDimensionRow(q, st, t) ==
    [StoredRow(q, st, t) EXCEPT !.query_embedding = <<10>>]

\* Database files that hold a row of the text "qa" and a row of another
\* dimension, of the same type or not, stored before or after it or in the
\* same millisecond.
MixedCaches ==
    {<<StoredRow("qa", "web", tg), OtherDimensionRow("qb", st, tb)>> :
        tg \in {0, 1}, tb \in {0, 1}, st \in SearchTypes}
    \cup {<<OtherDimensionRow("qb", st, tb), StoredRow("qa", "web", tg)>> :
        tg \in {0, 1}, tb \in {0, 1}, st \in SearchTypes}
InitMixed == \E rs \in MixedCaches : InitFile(rs, TRUE)

\* Searches of "qa" and of an unlike text on such a file.
NextMixed ==
    \/ \E q \in {"qa", "qc"} : StartSearch("s1", q, "web", "ok")
    \/ \E tie \in TieOrders : LookupResolve("s1", "ok", TRUE, TRUE, tie)
    \/ LoopIter("s1", 500)
    \/ Wake("s1")
    \/ FetchOk("s1")
    \/ FetchHttpError("s1", 500)
    \/ BodyOk("s1", "results", "ok")
    \/ StoreResolve("s1", "ok", TRUE)
    \/ Return("s1")
    \/ TickToDeadline
SpecMixed == InitMixed /\ [][NextMixed]_vars

\* The scan limit: web lookups of "qa" and further web stores of "qb" on a
\* filled database, with a database that opens and a model that works.
NextLimit ==
    \/ \E insertOk \in BOOLEAN :
          CacheStore("s1", "qb", "web", CACHE_TTL_SECONDS, "ok", "ok", insertOk)
    \/ \E tie \in TieOrders :
          CacheFind("s1", "qa", "web", "ok", "ok", TRUE, TRUE, tie)
SpecLimit == InitFilled /\ [][NextLimit]_vars

\* The result lists handed to deduplicateResults: up to MaxItems results, each
\* known by its place in the list.
ResultLists ==
    UNION {{[i \in 1..n |-> [id |-> i, url |-> f[i]]] : f \in [1..n -> Urls]} :
            n \in 0..MaxItems}

\* The values of maxPerDomain.
MaxPerDomainValues == {1, MAX_RESULTS_PER_DOMAIN}

\* deduplicateResults(results, maxPerDomain) is called and returns.
DeduplicateCall(results, maxPerDomain, flag) ==
    /\ processing.op = ""
    /\ processing' = [op |-> "deduplicate", flag |-> flag,
                      maxPerDomain |-> maxPerDomain, input |-> results,
                      output |-> DeduplicateResults(results, maxPerDomain, flag)]
    /\ UNCHANGED <<now, ticks, started, ENABLE_SEMANTIC_CACHE, requestCount,
                   pc, call, attempt, deadline, outcome, db, rows,
                   embInitialized, obs, multi, perplexity>>

\* The raw texts handed to parseSearchResults: up to MaxLines lines.
RawTexts == UNION {[1..n -> Lines] : n \in 0..MaxLines}

\* parseSearchResults(rawText) is called and returns.
ParseCall(lines) ==
    /\ processing.op = ""
    /\ processing' = [op |-> "parse", flag |-> FALSE, maxPerDomain |-> 0,
                      input |-> lines, output |-> ParseSearchResults(lines)]
    /\ UNCHANGED <<now, ticks, started, ENABLE_SEMANTIC_CACHE, requestCount,
                   pc, call, attempt, deadline, outcome, db, rows,
                   embInitialized, obs, multi, perplexity>>

\* The caller has taken the result; the processor keeps no state.
ProcessingReturn ==
    /\ processing.op # ""
    /\ processing' = NoProcessing
    /\ UNCHANGED <<now, ticks, started, ENABLE_SEMANTIC_CACHE, requestCount,
                   pc, call, attempt, deadline, outcome, db, rows,
                   embInitialized, obs, multi, perplexity>>

\* Calls of the result processor.
NextProcessing ==
    \/ \E results \in ResultLists, maxPerDomain \in MaxPerDomainValues,
          flag \in BOOLEAN : DeduplicateCall(results, maxPerDomain, flag)
    \/ \E lines \in RawTexts : ParseCall(lines)
    \/ ProcessingReturn
SpecProcessing == InitCache /\ [][NextProcessing]_vars

\* The values RETRY_CONFIG can be given: the one of the source among them.
RetryConfigs ==
    [maxAttempts : 2..MaxConfigAttempts,
     initialDelayMs : {500, RETRY_initialDelayMs},
     maxDelayMs : {1500, RETRY_maxDelayMs},
     backoffMultiplier : {1, RETRY_backoffMultiplier},
     jitterFactorPct : {RETRY_jitterFactorPct, 20}]

\* The delay of the 429 branch without a Retry-After header, for a value cfg
\* of RETRY_CONFIG: Math.min(initialDelayMs * Math.pow(...), maxDelayMs).
ConfigBackoff429(cfg, a) ==
    Min(cfg.initialDelayMs * Pow(cfg.backoffMultiplier, a - 1), cfg.maxDelayMs)

\* The delay of the timeout branch for a value cfg of RETRY_CONFIG:
\* initialDelayMs * Math.pow(backoffMultiplier, attempt - 1).
ConfigBackoffAbort(cfg, a) ==
    cfg.initialDelayMs * Pow(cfg.backoffMultiplier, a - 1)

\* addJitter(delayMs) for a value cfg of RETRY_CONFIG, Math.random() = r / 1000.
ConfigAddJitter(cfg, delayMs, r) ==
    LET jitter100000 == delayMs * cfg.jitterFactorPct * (r - 500)
    IN  delayMs + (2 * jitter100000 + 100000) \div 200000

\* Attempt a of performBraveSearch under cfg fails with a 429 without
\* Retry-After, or with a timeout, with attempts left: the delay computed and
\* the delay slept.
RetryDelayCall(cfg, a, cause, r) ==
    /\ processing.op = ""
    /\ a < cfg.maxAttempts
    /\ LET base == IF cause = "timeout" THEN ConfigBackoffAbort(cfg, a)
                   ELSE ConfigBackoff429(cfg, a)
       IN  processing' = [op |-> "retryDelay", flag |-> FALSE, maxPerDomain |-> 0,
                          input |-> [cfg |-> cfg, attempt |-> a, cause |-> cause],
                          output |-> [base |-> base,
                                      ms |-> ConfigAddJitter(cfg, base, r)]]
    /\ UNCHANGED <<now, ticks, started, ENABLE_SEMANTIC_CACHE, requestCount,
                   pc, call, attempt, deadline, outcome, db, rows,
                   embInitialized, obs, multi, perplexity>>

\* The retry delays of performBraveSearch for the values of RETRY_CONFIG.
NextBackoff ==
    \/ \E cfg \in RetryConfigs, a \in 1..MaxConfigAttempts,
          cause \in {"rate_limited_429", "timeout"}, r \in {0, 500, 999} :
          RetryDelayCall(cfg, a, cause, r)
    \/ ProcessingReturn
SpecBackoff == InitFetch /\ [][NextBackoff]_vars

\* Concurrent callers of EmbeddingService.
NextEmbedding ==
    \/ \E p \in Procs, entry \in EmbeddingEntries, text \in Queries :
          EmbeddingCall(p, entry, text)
    \/ \E p \in Procs, ok \in BOOLEAN : LoadSettles(p, ok)
    \/ \E p \in Procs, ok \in BOOLEAN : WarmupSettles(p, ok)
    \/ \E p \in Procs, ok \in BOOLEAN : InferenceSettles(p, ok)
    \/ \E p \in Procs : EmbeddingReturn(p)
SpecEmbedding == InitCache /\ [][NextEmbedding]_vars

\* The same, with close() called at any moment (a shutdown racing a search).
NextCacheClose == NextCache \/ Close
SpecCacheClose == InitCache /\ [][NextCacheClose]_vars

\* Searches of one query for one page or another, with the cache on.
NextPage ==
    \/ \E p \in {"s1"}, page \in Pages : StartSearchPage(p, "qa", page, "web", "ok")
    \/ \E p \in {"s1"}, how \in EmbedOutcomes, tie \in TieOrders :
          LookupResolve(p, how, TRUE, TRUE, tie)
    \/ \E p \in {"s1"} : LoopIter(p, 500)
    \/ \E p \in {"s1"} : Wake(p)
    \/ \E p \in {"s1"} : FetchOk(p)
    \/ \E p \in {"s1"}, kind \in BodyKinds : BodyOk(p, kind, "ok")
    \/ \E p \in {"s1"} : StoreResolve(p, "ok", TRUE)
    \/ \E p \in {"s1"} : Return(p)
    \/ TickToDeadline
SpecPage == InitCache /\ [][NextPage]_vars

\* The timers a call can wait on, one after another: a sleep after each
\* attempt but the last, and the abort timer of each attempt.
TimersPerCall == 2 * RETRY_maxAttempts - 1

\* A pending timer fires: the sleep or the abort timer that is due next.
Elapse ==
    /\ ticks < TimersPerCall * MaxSearches
    /\ \E p \in Procs :
          /\ pc[p] \in {"sleep", "fetch", "body"}
          /\ deadline[p] > now
          /\ \A q \in Procs :
                pc[q] \in {"sleep", "fetch", "body"} /\ deadline[q] > now
                    => deadline[p] <= deadline[q]
          /\ now' = deadline[p]
    /\ ticks' = ticks + 1
    /\ UNCHANGED <<started, ENABLE_SEMANTIC_CACHE, processing, multi,
                   requestCount, pc, call, attempt, deadline, outcome, db,
                   rows, embInitialized, obs, perplexity>>

\* What the event loop does for call p once it is due: a promise the call
\* awaits settles (embed, fetch, the body, a sleep whose time has come) and
\* the call runs on to its next await.
Settles(p) ==
    \/ LookupResolve(p, "ok", TRUE, TRUE, "rowid_asc")
    \/ LoopIter(p, 500)
    \/ Wake(p)
    \/ FetchOk(p)
    \/ \E header \in RetryAfterHeaders : Fetch429(p, header, 500)
    \/ FetchHttpError(p, 500)
    \/ FetchNetworkError(p, 500)
    \/ Abort(p, 500)
    \/ BodySyntaxError(p, 500)
    \/ \E kind \in BodyKinds : BodyOk(p, kind, "ok")
    \/ StoreResolve(p, "ok", TRUE)

\* Searches one after another, cache on or off, with every promise settling
\* and every timer firing in the end.
NextLive ==
    \/ StartSearch("s1", "qa", "web", "ok")
    \/ Settles("s1")
    \/ Return("s1")
    \/ Elapse
SpecLive ==
    /\ Init
    /\ [][NextLive]_vars
    /\ WF_vars(Settles("s1"))
    /\ WF_vars(Elapse)

\* Concurrent searches of one query with the cache on: one call's findSimilar
\* and another call's store overlap.
NextOverlap ==
    \/ \E p \in Procs : StartSearch(p, "qa", "web", "ok")
    \/ \E p \in Procs, tie \in TieOrders :
          LookupResolve(p, "ok", TRUE, TRUE, tie)
    \/ \E p \in Procs : LoopIter(p, 500)
    \/ \E p \in Procs : Wake(p)
    \/ \E p \in Procs : FetchOk(p)
    \/ \E p \in Procs, kind \in BodyKinds : BodyOk(p, kind, "ok")
    \/ \E p \in Procs, insertOk \in BOOLEAN : StoreResolve(p, "ok", insertOk)
    \/ \E p \in Procs : Return(p)
    \/ TickToDeadline
SpecOverlap == InitCache /\ [][NextOverlap]_vars

(***************************************************************************)
(* Properties of the rate limiter and the retry loop (SpecFetch).          *)
(***************************************************************************)

\* A call that is in performBraveSearch's fetch or body read after a
\* checkRateLimit that let it proceed.
Admitted(p) == pc[p] \in {"fetch", "body"} /\ obs[p].lastCheck = "ok"

\* An OK response of some call is dealt with in this step: its body read ends.
OkResponseHandled == \E p \in Procs : pc[p] = "body" /\ pc'[p] # "body"

\* Both counters go up by one in this step.
BothIncremented ==
    /\ requestCount'.second = requestCount.second + 1
    /\ requestCount'.month = requestCount.month + 1

\* No counter goes up in this step (a window rollover may reset one).
NoneIncremented ==
    /\ requestCount'.second <= requestCount.second
    /\ requestCount'.month <= requestCount.month

\* C1: the counters are incremented, both by one, exactly once for every OK
\* upstream response and by no other step (429, timeout, non-OK status,
\* rate-limit wait, quota error).
C1_CountersFollowOkResponses ==
    [][(OkResponseHandled => BothIncremented)
       /\ (~OkResponseHandled => NoneIncremented)]_vars

\* C2: requestCount.month never exceeds RATE_LIMIT.perMonth, also when
\* searches run concurrently.
C2_MonthWithinQuota == requestCount.month <= RATE_LIMIT_perMonth

\* C3: the check and the counter update act as one compare-and-increment: two
\* calls are never both in flight on checks that passed in the same
\* one-second window when each of them saw one unit left.
C3_CheckIsCompareAndIncrement ==
    \A p, q \in Procs :
        (p # q /\ Admitted(p) /\ Admitted(q) /\ obs[p].window = obs[q].window)
            => ~(obs[p].secondLeft = 1 /\ obs[q].secondLeft = 1)

\* C4: a checkRateLimit that finds month >= perMonth ends performBraveSearch
\* at once with the quota error: no request is issued for that attempt, no
\* sleep and no further attempt follow, and the tool result has isError; the
\* error's "Resets in N days" names a time within the 30-day window.
C4_QuotaErrorEndsCall ==
    /\ \A p \in Procs :
          obs[p].lastCheck = "monthly"
              => /\ pc[p] = "done"
                 /\ outcome[p] = Rejected("quota")
                 /\ outcome[p].isError
                 /\ obs[p].fetches < attempt[p]
    /\ LET chk == CheckRateLimit(requestCount, now)
       IN  chk.reason = "monthly"
              => /\ ~chk.canProceed
                 /\ chk.waitTimeMs = 0
                 /\ chk.daysLeft \in 1..MonthWindowDays

\* C4 happens: a call ended by the quota error on a later attempt than its
\* first, after an upstream request of its own.
C4_Witness ==
    \E p \in Procs :
        /\ obs[p].lastCheck = "monthly"
        /\ pc[p] = "done"
        /\ attempt[p] >= 2
        /\ obs[p].fetches >= 1

\* C5: one performBraveSearch call issues at most maxAttempts requests: at
\* most one for each attempt, and it makes at most maxAttempts attempts.
C5_AtMostMaxAttemptsFetches ==
    \A p \in Procs :
        /\ obs[p].fetches <= attempt[p]
        /\ attempt[p] <= RETRY_maxAttempts
        /\ obs[p].fetches <= RETRY_maxAttempts

\* C5 happens: a call has issued maxAttempts requests.
C5_Witness ==
    \E p \in Procs : obs[p].fetches = RETRY_maxAttempts /\ attempt[p] = RETRY_maxAttempts

\* C6: a call whose every upstream attempt failed with 429 or a timeout, and
\* which the monthly quota did not stop, has issued exactly maxAttempts
\* requests, whatever the per-second counter was when it started.
C6_RetryableFailuresUseAllAttempts ==
    \A p \in Procs :
        (pc[p] = "done" /\ outcome[p].kind = "rejected"
            /\ outcome[p].error \in {"rate_limited_429", "timeout"})
            => obs[p].fetches = RETRY_maxAttempts

(***************************************************************************)
(* Properties of the cached search (SpecCache, SpecCacheClose).            *)
(***************************************************************************)

\* The errors of the upstream fetch, as performBraveSearch throws them.
FetchErrors ==
    {"quota", "second_limit", "rate_limited_429", "timeout", "http_error",
     "network", "bad_body", "retries_exhausted"}

\* C7: when findSimilar returns an entry, search() returns the cached payload
\* and performBraveSearch is not called: no rate-limit check, no upstream
\* request, no counter increment, no cache insert.
C7_HitIsServedLocally ==
    \A p \in Procs :
        obs[p].cacheHit
            => /\ pc[p] = "done"
               /\ outcome[p].kind = "hit"
               /\ ~outcome[p].isError
               /\ outcome[p].payload.text \in {"cached", "cached_prefix"}
               /\ attempt[p] = 0
               /\ obs[p].lastCheck = ""
               /\ obs[p].fetches = 0
               /\ obs[p].commits = 0
               /\ obs[p].inserts = 0

\* C7 happens: a search has been answered from the cache.
C7_Witness ==
    \E p \in Procs : obs[p].cacheHit /\ pc[p] = "done" /\ outcome[p].kind = "hit"

\* C8: search() rejects only with an error of the upstream fetch.
C8_OnlyFetchFailuresReject ==
    \A p \in Procs :
        outcome[p].kind = "rejected" => outcome[p].error \in FetchErrors

\* C9: semanticCache.store never rejects to its caller.
C9_StoreNeverRejects == \A p \in Procs : ~obs[p].storeThrew

\* C10: when embed throws during the lookup, findSimilar returns null: the
\* search is no hit, goes on to the upstream fetch, does not reject with the
\* lookup's error, and after a successful fetch returns the formatted result.
C10_EmbedFailureIsMiss ==
    \A p \in Procs :
        obs[p].embedFailed
            => /\ ~obs[p].cacheHit
               /\ outcome[p].kind # "hit"
               /\ pc[p] \in {"loop", "sleep", "fetch", "body", "store", "done"}
               /\ outcome[p].kind = "rejected" => outcome[p].error \in FetchErrors
               /\ (pc[p] = "done" /\ obs[p].commits = 1)
                     => /\ outcome[p].kind = "fresh"
                        /\ ~outcome[p].isError
                        /\ outcome[p].payload.text \in {"fresh", "noresults"}

\* C10 happens: a search whose lookup embedding failed returned fresh results.
C10_Witness ==
    \E p \in Procs :
        /\ obs[p].embedFailed
        /\ pc[p] = "done"
        /\ obs[p].commits = 1
        /\ outcome[p].kind = "fresh"

(***************************************************************************)
(* Properties of the cache used directly (SpecExpiry, SpecScan).           *)
(***************************************************************************)

\* C11: findSimilar never returns an entry that is not live at lookup time:
\* the entry it returns has now < timestamp + ttl (so never one of ttl 0).
C11_OnlyLiveEntriesReturned ==
    \A p \in Procs :
        obs[p].lookup.found
            => obs[p].lookup.at < obs[p].lookup.hitTimestamp + obs[p].lookup.hitTtl

\* C12: findSimilar(q, type) returns only an entry stored under that type.
C12_HitHasRequestedType ==
    \A p \in Procs :
        obs[p].lookup.found => obs[p].lookup.hitType = obs[p].lookup.searchType

\* C12 happens: a lookup returned an entry while the cache held an entry of
\* the other type with the very text asked for.
C12_Witness ==
    \E p \in Procs :
        /\ obs[p].lookup.found
        /\ obs[p].lookup.hitType = obs[p].lookup.searchType
        /\ \E i \in 1..Len(rows) :
              /\ rows[i].search_type # obs[p].lookup.searchType
              /\ rows[i].query = obs[p].lookup.query

\* A lookup of the text and type of the last store, made with no store in
\* between and before timestamp + ttl has passed, that met no internal error.
LooksUpStored(p) ==
    /\ obs[p].stored.inserted
    /\ obs[p].stored.ttl > 0
    /\ DotFrom(Embedding(obs[p].stored.query), Embedding(obs[p].stored.query), 1) > 0
    /\ obs[p].lookup.done
    /\ ~obs[p].lookup.threw
    /\ obs[p].lookup.query = obs[p].stored.query
    /\ obs[p].lookup.searchType = obs[p].stored.searchType
    /\ obs[p].lookup.at <= obs[p].stored.at + obs[p].stored.ttl

\* C13: after a store with ttl > 0 and a non-zero embedding, a findSimilar of
\* the same text and type returns a hit whose similarity is >= the threshold.
C13_StoredIsFound ==
    \A p \in Procs :
        LooksUpStored(p)
            => /\ obs[p].lookup.found
               /\ obs[p].lookup.similarity.num * 10000
                     >= 92 * 92 * obs[p].lookup.similarity.den

\* C13 happens: a text was stored and then found at once.
C13_Witness ==
    \E p \in Procs :
        /\ LooksUpStored(p)
        /\ obs[p].lookup.at = obs[p].stored.at
        /\ obs[p].lookup.found

\* The candidates the last lookup of p scanned, when nothing was stored and no
\* time has passed since.
Scanned(p) == SelectCandidates(rows, obs[p].lookup.searchType, obs[p].lookup.tie)

\* The similarity of the last lookup's text to a row.
SimilarityTo(p, row) ==
    CosineSimilarity(Embedding(obs[p].lookup.query), row.query_embedding)

\* Similarities compared as fractions.
MeetsThreshold(x) == x.num * 10000 >= 92 * 92 * x.den
Below(x, y) == x.num * y.den < y.num * x.den
Same(x, y) == x.num * y.den = y.num * x.den

\* C14: findSimilar returns null iff no scanned candidate has similarity >= the
\* threshold; else it returns a scanned candidate of maximal similarity and
\* reports that similarity, which is >= the threshold; a zero-magnitude
\* candidate or query has similarity 0 and is never returned.
C14_BestCandidateOrNull ==
    \A p \in Procs :
        (obs[p].lookup.done /\ ~obs[p].lookup.threw /\ obs[p].lookup.at = now)
            => LET c == Scanned(p)
                   lk == obs[p].lookup
               IN  /\ lk.found <=> \E i \in 1..Len(c) : MeetsThreshold(SimilarityTo(p, c[i]))
                   /\ lk.found =>
                        /\ MeetsThreshold(lk.similarity)
                        /\ \E i \in 1..Len(c) :
                              /\ c[i].query = lk.hitQuery
                              /\ c[i].search_type = lk.hitType
                              /\ c[i].timestamp = lk.hitTimestamp
                              /\ c[i].ttl = lk.hitTtl
                              /\ Same(SimilarityTo(p, c[i]), lk.similarity)
                        /\ \A j \in 1..Len(c) : ~Below(lk.similarity, SimilarityTo(p, c[j]))
                        /\ DotFrom(Embedding(lk.hitQuery), Embedding(lk.hitQuery), 1) > 0
                        /\ DotFrom(Embedding(lk.query), Embedding(lk.query), 1) > 0
                   /\ \A i \in 1..Len(c) :
                        (\/ DotFrom(c[i].query_embedding, c[i].query_embedding, 1) = 0
                         \/ DotFrom(Embedding(lk.query), Embedding(lk.query), 1) = 0)
                            => SimilarityTo(p, c[i]).num = 0

\* C14 happens: a lookup scanned two candidates above the threshold and
\* returned the more similar one.
C14_Witness ==
    \E p \in Procs :
        /\ obs[p].lookup.found
        /\ obs[p].lookup.at = now
        /\ \E i \in 1..Len(Scanned(p)) :
              /\ MeetsThreshold(SimilarityTo(p, Scanned(p)[i]))
              /\ Below(SimilarityTo(p, Scanned(p)[i]), obs[p].lookup.similarity)

-----------------------------------------------------------------------------
\* Claims on the failures of an upstream request, under SpecFetch.

\* The failures that are neither a 429 nor a timeout: another non-OK status
\* and a body that cannot be read.
TerminalFailures == {"http_error", "bad_body"}

\* No call sleeps because of a terminal failure; a call that met one is over
\* with that error, no timer pending.
ThrownAtOnce(p) ==
    /\ obs[p].slept.cause \notin TerminalFailures
    /\ outcome[p].error \in TerminalFailures =>
          /\ pc[p] = "done"
          /\ outcome[p].isError
          /\ deadline[p] = 0
          /\ obs[p].slept = NoSleep

\* The step in which a call meets a terminal failure changes neither the
\* counters nor the call's attempts and requests.
FailureStep(p) ==
    (outcome[p].error \notin TerminalFailures
        /\ outcome'[p].error \in TerminalFailures) =>
       /\ requestCount' = requestCount
       /\ attempt' = attempt
       /\ obs'[p].fetches = obs[p].fetches
       /\ obs'[p].commits = obs[p].commits

\* C15: an upstream failure other than HTTP 429 or a timeout (another non-OK
\* status, an unreadable body) makes performBraveSearch throw at once: no
\* further attempt, no backoff sleep, the rate-limit counters unchanged.
C15_TerminalFailureThrowsAtOnce ==
    /\ [](\A p \in Procs : ThrownAtOnce(p))
    /\ [][\A p \in Procs : FailureStep(p)]_vars

\* A call ended by a terminal failure with attempts left, after a retry.
C15_Witness ==
    \E p \in Procs :
        /\ outcome[p].error \in TerminalFailures
        /\ attempt[p] = 2
        /\ obs[p].fetches = 2

\* C16 as stated: a network error surfaces only after maxAttempts attempts.
C16_NetworkErrorUsesAllAttempts ==
    \A p \in Procs :
        outcome[p].error = "network" => attempt[p] = RETRY_maxAttempts

\* C16, amended: a network error of the upstream fetch is not retried:
\* performBraveSearch rethrows it at once, without a backoff sleep, whatever
\* number of attempts remain.
C16_NetworkErrorRethrown ==
    \A p \in Procs :
        /\ obs[p].slept.cause # "network"
        /\ outcome[p].error = "network" =>
              /\ pc[p] = "done"
              /\ outcome[p].isError
              /\ deadline[p] = 0
              /\ obs[p].slept = NoSleep

\* A call ended by a network error on its first attempt.
C16_Witness ==
    \E p \in Procs :
        /\ outcome[p].error = "network"
        /\ attempt[p] = 1
        /\ obs[p].fetches = 1

\* ms lies within the jitter band around basis: basis * (1 +- jitterFactor).
WithinJitterBand(ms, basis) ==
    /\ ms * 100 >= basis * (100 - RETRY_jitterFactorPct)
    /\ ms * 100 <= basis * (100 + RETRY_jitterFactorPct)

\* C17: after a 429 with Retry-After: n and attempts left, the delay slept is
\* n * 1000 ms within the jitter band, not the exponential backoff; without
\* the header it is the computed backoff within the jitter band.
C17_RetryAfterPreferred ==
    \A p \in Procs :
        (pc[p] = "sleep" /\ obs[p].slept.cause = "rate_limited_429") =>
            LET header == obs[p].slept.header
            IN  /\ header # <<>> =>
                      WithinJitterBand(obs[p].slept.ms, header[1] * 1000)
                /\ header = <<>> =>
                      WithinJitterBand(obs[p].slept.ms, BackoffCapped(attempt[p]))

\* A call asleep after a 429 with Retry-After: 2 on its first attempt, for a
\* delay that is outside the band of the computed backoff (1000 ms).
C17_Witness ==
    \E p \in Procs :
        /\ pc[p] = "sleep"
        /\ obs[p].slept.cause = "rate_limited_429"
        /\ obs[p].slept.header = <<2>>
        /\ attempt[p] = 1
        /\ ~WithinJitterBand(obs[p].slept.ms, BackoffCapped(1))

-----------------------------------------------------------------------------
\* Claim on the length of the sleeps, under SpecDelay.

\* C18: every delay slept before a retry (after a 429 with or without
\* Retry-After, after a timeout, after a per-second wait) is non-negative and
\* at most maxDelayMs * (1 + jitterFactor).
C18_DelayWithinCap ==
    \A p \in Procs :
        pc[p] = "sleep" =>
            /\ obs[p].slept.ms >= 0
            /\ obs[p].slept.ms * 100 <=
                   RETRY_maxDelayMs * (100 + RETRY_jitterFactorPct)

-----------------------------------------------------------------------------
\* Claim on the rate of the upstream requests, under SpecFetch.

\* A request of p is under way: fetch or response.json() is pending.
RequestPending(p) == pc[p] \in {"fetch", "body"}

\* The time at which the pending request of p was issued: its abort timer
\* was set in the same step.
IssuedAt(p) == deadline[p] - FetchTimeout

\* C19: no more than RATE_LIMIT.perSecond (1) upstream requests are issued
\* within any 1000 ms: two requests under way at once were issued at least
\* one second window apart.
C19_OneRequestPerSecond ==
    \A p, q \in Procs :
        (p # q /\ RequestPending(p) /\ RequestPending(q)) =>
            \/ IssuedAt(p) - IssuedAt(q) >= SecondWindow * RATE_LIMIT_perSecond
            \/ IssuedAt(q) - IssuedAt(p) >= SecondWindow * RATE_LIMIT_perSecond

-----------------------------------------------------------------------------
\* Claim on EmbeddingService.initialize, under SpecEmbedding.

RECURSIVE Total(_, _)
\* The sum of count[p] over the callers p in P.
Total(count, P) ==
    IF P = {} THEN 0
    ELSE LET p == CHOOSE x \in P : TRUE
         IN  count[p] + Total(count, P \ {p})

\* The pipelines loaded and the warm-ups started by all callers.
PipelinesLoaded == Total([p \in Procs |-> obs[p].loads], Procs)
WarmupsStarted == Total([p \in Procs |-> obs[p].warmups], Procs)

\* C20: across any interleaving of concurrent initialize() and embed()
\* calls, the pipeline is loaded and warmed up at most once.
C20_LoadedAtMostOnce ==
    /\ PipelinesLoaded <= 1
    /\ WarmupsStarted <= 1

-----------------------------------------------------------------------------
\* Claims on the result processor, under SpecProcessing.

\* The places of the input whose items are in the output.
KeptPlaces == {processing.output[j].id : j \in 1..Len(processing.output)}

\* The output is a subsequence of the input: its items are items of the
\* input, in the order of the input.
OutputIsSubsequence ==
    /\ \A j \in 1..Len(processing.output) :
          /\ processing.output[j].id \in 1..Len(processing.input)
          /\ processing.output[j] = processing.input[processing.output[j].id]
    /\ \A j, k \in 1..Len(processing.output) :
          j < k => processing.output[j].id < processing.output[k].id

\* The kept items of the domain of input item i that come before it.
KeptEarlier(i) ==
    {k \in KeptPlaces :
        /\ k < i
        /\ DomainOf(processing.input[k].url) = DomainOf(processing.input[i].url)}

\* An item is kept iff its URL is valid and fewer than maxPerDomain earlier
\* items of its domain were kept.
KeptIffBelowCap ==
    \A i \in 1..Len(processing.input) :
        i \in KeptPlaces <=>
            /\ processing.input[i].url.valid
            /\ Cardinality(KeptEarlier(i)) < processing.maxPerDomain

\* C21 as stated: deduplicateResults returns a subsequence of its input in
\* which an item is kept iff its URL is valid and fewer than maxPerDomain
\* earlier items of its domain were kept.
C21_DedupKeepsBelowCap ==
    processing.op = "deduplicate" =>
        /\ OutputIsSubsequence
        /\ KeptIffBelowCap

\* C21, amended: with ENABLE_DEDUPLICATION on, deduplicateResults returns such
\* a subsequence; with the flag off it returns its input unchanged.
C21_DedupKeepsBelowCapWhenEnabled ==
    processing.op = "deduplicate" =>
        /\ processing.flag => (OutputIsSubsequence /\ KeptIffBelowCap)
        /\ ~processing.flag => processing.output = processing.input

\* Five items of one domain, maxPerDomain = 2, the flag on: the first two
\* are returned.
C21_Witness ==
    /\ processing.op = "deduplicate"
    /\ processing.flag
    /\ processing.maxPerDomain = 2
    /\ Len(processing.input) = 5
    /\ \A i \in 1..5 : /\ processing.input[i].url.valid
                        /\ DomainOf(processing.input[i].url) = <<"a.com">>
    /\ KeptPlaces = {1, 2}
    /\ Len(processing.output) = 2

\* The blocks of the parsed text.
InputBlocks == SplitBlocks(processing.input, 1, <<>>)

\* The value of the last line of the kind in the block, "" if there is none.
LastOf(block, kind) ==
    LET at == {i \in 1..Len(block) : block[i].kind = kind}
    IN  IF at = {} THEN ""
        ELSE block[CHOOSE i \in at : \A k \in at : k <= i].value

\* The blocks that have a title and a URL.
CompleteBlocks ==
    {b \in 1..Len(InputBlocks) :
        LastOf(InputBlocks[b], "title") # "" /\ LastOf(InputBlocks[b], "url") # ""}

\* The complete blocks among the first b blocks.
CompleteUpTo(b) == {c \in CompleteBlocks : c <= b}

\* C22: parseSearchResults emits one item per block that has both a title
\* and a URL, in block order, with the fields of that block alone; every
\* other block is dropped and parsing never fails.
C22_OneItemPerCompleteBlock ==
    processing.op = "parse" =>
        /\ Len(processing.output) = Cardinality(CompleteBlocks)
        /\ \A b \in CompleteBlocks :
              LET item == processing.output[Cardinality(CompleteUpTo(b))]
              IN  /\ item.title = LastOf(InputBlocks[b], "title")
                  /\ item.url = LastOf(InputBlocks[b], "url")
                  /\ item.description \in
                        {Undefined, LastOf(InputBlocks[b], "description")}

\* A text of two blocks, a block without URL before a complete one: one
\* item, that of the second block.
C22_Witness ==
    /\ processing.op = "parse"
    /\ Len(InputBlocks) = 2
    /\ CompleteBlocks = {2}
    /\ Len(processing.output) = 1
    /\ processing.output[1].title = "T"
    /\ processing.output[1].url = "U"

-----------------------------------------------------------------------------
\* Claim on executeMultiLinkSearch, under SpecMulti.

\* The sections pushed so far are those of the first queries, in input order.
SectionsInOrder(p) ==
    /\ Len(multi[p].searchResults) <= Len(multi[p].queries)
    /\ \A k \in 1..Len(multi[p].searchResults) :
          multi[p].searchResults[k].query = multi[p].queries[k]

\* A request of the call under way is that of the first query without a
\* section: the earlier queries are over.
OneQueryAtATime(p) ==
    (multi[p].active /\ pc[p] \in {"loop", "sleep", "fetch", "body"}) =>
        /\ Len(multi[p].searchResults) = multi[p].i - 1
        /\ call[p].query = multi[p].queries[multi[p].i]

\* A query after the first is worked on no sooner than 1100 ms after the
\* query before it has ended.
PausedBetweenQueries(p) ==
    (multi[p].active /\ multi[p].i > 1
        /\ pc[p] \in {"loop", "sleep", "fetch", "body", "done"}) =>
        now - multi[p].finishedAt >= CeilDiv(MULTI_LINK_PAUSE_MS, QuantumMs)

\* The call that has returned its combined output has one section per query.
OneSectionPerQuery(p) ==
    outcome[p].kind = "multi" =>
        /\ ~outcome[p].isError
        /\ Len(multi[p].searchResults) = Len(multi[p].queries)

\* C23: executeMultiLinkSearch works on its queries in input order, one at a
\* time, with a pause of 1100 ms between consecutive queries; a failed query
\* gives an error text and the remaining queries are still run, so that the
\* output has one section per query.
C23_QueriesInOrderWithPause ==
    \A p \in Procs :
        /\ SectionsInOrder(p)
        /\ OneQueryAtATime(p)
        /\ PausedBetweenQueries(p)
        /\ OneSectionPerQuery(p)

\* A call with two queries has returned: the first search failed, the second
\* was run after it and succeeded.
C23_Witness ==
    \E p \in Procs :
        /\ outcome[p].kind = "multi"
        /\ Len(multi[p].queries) = 2
        /\ multi[p].searchResults[1].error # ""
        /\ multi[p].searchResults[2].error = ""

-----------------------------------------------------------------------------
\* Claim on the Perplexity tool, under SpecResearch.

\* C24: requests to the Perplexity API are issued at least
\* MIN_REQUEST_INTERVAL_MS (2000 ms) apart, for any interleaving of calls
\* and any retries inside them.
C24_RequestsTwoSecondsApart ==
    perplexity.prevIssued # NoneIssued =>
        perplexity.lastIssued - perplexity.prevIssued
            >= MIN_REQUEST_INTERVAL_MS \div QuantumMs

-----------------------------------------------------------------------------
\* Claims on the per-second wait of performBraveSearch, under SpecFetch.

\* C25: a wait for the per-second limit does not use up an attempt: only
\* upstream requests do, so the attempt number of a request under way is the
\* number of requests the call has issued.
C25_SoftWaitKeepsAttempt ==
    \A p \in Procs :
        pc[p] = "fetch" => attempt[p] = obs[p].fetches

\* C26: a request is issued only when the checkRateLimit of the same pass of
\* the loop returned canProceed = true, on any attempt.
C26_RequestOnlyWhenCanProceed ==
    \A p \in Procs :
        pc[p] = "fetch" => obs[p].lastCheck = "ok"


\* The places of a search in order: before the upstream fetch has succeeded
\* store has not been called; once it has, store has been called once.
StoreAfterFetch(p) ==
    /\ pc[p] \in {"lookup", "loop", "sleep", "fetch", "body"}
          => obs[p].stores = 0 /\ obs[p].inserts = 0
    /\ pc[p] \in {"store", "done"} => obs[p].stores = obs[p].commits
    /\ obs[p].stores <= 1
    /\ obs[p].inserts <= obs[p].stores
    /\ pc[p] = "store" => outcome[p].kind = "fresh" /\ obs[p].inserts = 0

\* A search whose fetch failed has stored nothing.
FailedFetchStoresNothing(p) ==
    outcome[p].error \in FetchErrors
        => obs[p].stores = 0 /\ obs[p].inserts = 0

\* The row a store has inserted carries the text the search returns.
StoredWhatIsReturned(p) ==
    (pc[p] = "done" /\ obs[p].inserts = 1)
        => /\ outcome[p].kind = "fresh"
           /\ Len(rows) > 0
           /\ rows[Len(rows)].query = call[p].query
           /\ rows[Len(rows)].results = outcome[p].payload

\* The rows change only in the lookup (its expiry purge) and in store, which
\* appends one row with the formatted text and then lets the search return.
RowsChangeOnlyInLookupOrStore ==
    rows' # rows
        => \E p \in Procs :
              \/ pc[p] = "lookup"
              \/ /\ pc[p] = "store"
                 /\ pc'[p] = "done"
                 /\ outcome'[p] = outcome[p]
                 /\ Len(rows') = Len(rows) + 1
                 /\ SubSeq(rows', 1, Len(rows)) = rows
                 /\ rows'[Len(rows')].results = outcome[p].payload

\* C27: on a cache miss search() fetches, then parses, deduplicates and formats,
\* then stores, then returns, in that order; store is called exactly once by a
\* search whose fetch succeeded, with the formatted text that is returned, and
\* a search whose fetch failed calls no store and changes no row.
C27_MissFetchesThenStoresOnce ==
    /\ [](\A p \in Procs : /\ StoreAfterFetch(p)
                            /\ FailedFetchStoresNothing(p)
                            /\ StoredWhatIsReturned(p))
    /\ [][RowsChangeOnlyInLookupOrStore]_vars

\* A search that missed, fetched, stored one row and returned the fresh text.
C27_Witness ==
    \E p \in Procs :
        /\ pc[p] = "done"
        /\ ~obs[p].cacheHit
        /\ obs[p].commits = 1
        /\ obs[p].stores = 1
        /\ obs[p].inserts = 1
        /\ outcome[p].kind = "fresh"
        /\ rows[Len(rows)].results = outcome[p].payload

\* The rows of the type of the last lookup that were stored after row i.
StoredAfter(p, i) ==
    {j \in 1..Len(rows) : /\ rows[j].search_type = obs[p].lookup.searchType
                          /\ rows[j].timestamp > rows[i].timestamp}

\* The rows that are older than the ScanLimit most recently stored rows of
\* the type of the last lookup.
BeyondLimit(p) ==
    {i \in 1..Len(rows) : /\ rows[i].search_type = obs[p].lookup.searchType
                          /\ Cardinality(StoredAfter(p, i)) >= ScanLimit}

\* C28: findSimilar considers only the 100 most recently stored rows of the
\* requested type: a row older than those is never the one returned.
C28_OlderThanHundredNeverReturned ==
    \A p \in Procs :
        (obs[p].lookup.done /\ obs[p].lookup.found /\ obs[p].lookup.at = now)
            => \A i \in BeyondLimit(p) :
                  rows[i].timestamp # obs[p].lookup.hitTimestamp

\* A lookup whose text is that of a row older than the hundred scanned: the
\* row matches the text exactly, and a less similar recent row is returned.
C28_Witness ==
    \E p \in Procs :
        /\ obs[p].lookup.done
        /\ ~obs[p].lookup.threw
        /\ obs[p].lookup.found
        /\ obs[p].lookup.hitQuery # obs[p].lookup.query
        /\ \E i \in BeyondLimit(p) :
              /\ rows[i].query = obs[p].lookup.query
              /\ Below(obs[p].lookup.similarity, SimilarityTo(p, rows[i]))

\* A store has added one row, with its arguments and the time of the call,
\* after the rows there were, which are as they were.
RowCreated ==
    \E p \in Procs :
        /\ obs'[p].stored.inserted
        /\ obs'[p].stored.at = now
        /\ Len(rows') = Len(rows) + 1
        /\ SubSeq(rows', 1, Len(rows)) = rows
        /\ LET row == rows'[Len(rows')]
           IN  /\ row.query = obs'[p].stored.query
               /\ row.search_type = obs'[p].stored.searchType
               /\ row.ttl = obs'[p].stored.ttl
               /\ row.timestamp = now

\* The purge of a findSimilar has deleted the expired rows and no other; the
\* rows left are as they were.
RowsPurged ==
    \E p \in Procs :
        /\ obs'[p].deleted = "purged"
        /\ obs'[p].lookup.done
        /\ rows' = SelectSeq(rows, LAMBDA row : row.timestamp + row.ttl >= now)

\* clear() has deleted every row.
RowsCleared ==
    \E p \in Procs : obs'[p].deleted = "cleared" /\ rows' = <<>>

\* The ways the rows change.
RowsLifecycle ==
    rows' # rows => /\ now' = now
                    /\ RowCreated \/ RowsPurged \/ RowsCleared

\* After a findSimilar whose purge ran no row of either type has expired, and
\* after clear() the size is 0.
PurgedAndCleared(p) ==
    /\ (obs[p].deleted = "purged" /\ obs[p].lookup.at = now)
          => \A i \in 1..Len(rows) : rows[i].timestamp + rows[i].ttl >= now
    /\ obs[p].deleted \in {"cleared", "no_db"}
          => \A countOk \in BOOLEAN : GetSize(db, rows, countOk) = 0
    /\ obs[p].deleted = "cleared" => rows = <<>>

\* C29: rows are created only by store, one row per store whose INSERT ran and
\* never by changing a row there is; rows do not change afterwards; rows are
\* deleted only by the expiry purge of findSimilar and by clear(); after a
\* findSimilar whose purge ran no row of any type with timestamp + ttl < now
\* is left, and after clear() the size is 0.
C29_RowsCreatedByStoreDeletedByPurgeOrClear ==
    /\ [](\A p \in Procs : PurgedAndCleared(p))
    /\ [][RowsLifecycle]_vars

\* clear() has emptied a cache that held a row stored in this instant.
C29_Witness ==
    \E p \in Procs :
        /\ obs[p].deleted = "cleared"
        /\ obs[p].inserts > 0
        /\ ticks = 0
        /\ rows = <<>>

\* A step leaves the counter c and the start of its window as they are, or
\* adds one to the counter for a success that incrementRateLimit commits, or
\* is a checkRateLimit that finds the window elapsed, sets the counter to 0
\* and starts the window anew at the time of the call.
CounterStep(c, lastReset, window) ==
    \/ /\ requestCount'[c] = requestCount[c]
       /\ requestCount'[lastReset] = requestCount[lastReset]
    \/ /\ requestCount'[c] = requestCount[c] + 1
       /\ requestCount'[lastReset] = requestCount[lastReset]
       /\ \E p \in Procs : /\ pc[p] = "body"
                            /\ obs'[p].commits = obs[p].commits + 1
    \/ /\ requestCount'[c] = 0
       /\ requestCount'[lastReset] = now
       /\ now - requestCount[lastReset] >= window
       /\ \E p \in Procs : /\ pc[p] = "loop"
                            /\ attempt'[p] = attempt[p] + 1

\* C30: requestCount.second and requestCount.month change in two ways only:
\* by one on a committed success, or to 0 in a checkRateLimit that sees the
\* window (1000 ms, 2,592,000,000 ms) elapsed and sets lastReset to now; so a
\* counter does not decrease within a window and no reset comes early.
C30_CountersIncrementOrResetOnWindow ==
    [][/\ CounterStep("second", "lastSecondReset", SecondWindow)
       /\ CounterStep("month", "lastMonthReset", MonthWindow)]_vars

\* A success has been counted and the per-second counter has been reset since.
C30_Witness ==
    /\ requestCount.second = 0
    /\ requestCount.month > 0
    /\ requestCount.month \notin InitMonths
    /\ requestCount.lastSecondReset = now
    /\ \E p \in Procs : attempt[p] > 0

-----------------------------------------------------------------------------
\* Claim on the backoff, under SpecBackoff.

-----------------------------------------------------------------------------
\* Claim on the abort timer and the counters, under SpecFetch.

\* The abort timer ends the body read of p's OK response in this step: the
\* call goes to sleep for a retry, or throws the timeout error.
AnsweredThenAborted(p) ==
    /\ pc[p] = "body"
    /\ \/ pc'[p] = "sleep" /\ obs'[p].slept.cause = "timeout"
       \/ pc'[p] = "done" /\ outcome'[p].error = "timeout"

\* A counter goes up in this step.
SomeIncremented ==
    \/ requestCount'.second > requestCount.second
    \/ requestCount'.month > requestCount.month

\* C32: a timeout abort never leaves the counters at odds with what was sent:
\* an attempt whose request was not sent is not counted, and an attempt whose
\* request was sent and answered with an OK response is counted, also when
\* the abort timer fires after the response arrived and before its body was
\* read.
C32_AbortKeepsCountersTrue ==
    [][/\ SomeIncremented
           => \E p \in Procs : pc[p] = "body" /\ obs[p].okResponses > 0
       /\ \A p \in Procs : AnsweredThenAborted(p) => BothIncremented]_vars

-----------------------------------------------------------------------------
\* Claim on a findSimilar scan that overlaps a store, under SpecOverlap.

\* A row with all its columns: the query, its embedding, the formatted
\* results, the type, the timestamp of the INSERT and the ttl.
CompleteRow(row) ==
    /\ row.query \in Queries
    /\ row.query_embedding = Embedding(row.query)
    /\ row.results \in {FormatResults(row.query, kind) : kind \in BodyKinds}
    /\ row.search_type \in SearchTypes
    /\ row.timestamp \in 0..now
    /\ row.ttl = TtlOf(CACHE_TTL_SECONDS)

\* A reply built from the results column of a complete row of query q.
ReplyOfCompleteRow(payload, q) ==
    /\ payload.age.unit \in {"just now", "m ago", "h ago", "d ago"}
    /\ \E kind \in BodyKinds :
          payload = CachedReply(FormatResults(q, kind), payload.age)

\* C33: a findSimilar scan that overlaps a store sees the new entry whole,
\* with query, embedding, results, type, timestamp and ttl, or does not see it
\* at all: the table never holds a partly written row, and a lookup that
\* overlapped a store and hit returns the results of a complete row.
C33_ScanSeesWholeRowOrNone ==
    /\ \A i \in 1..Len(rows) : CompleteRow(rows[i])
    /\ \A p \in Procs :
          obs[p].overlapped /\ pc[p] = "done" /\ outcome[p].kind = "hit"
              => ReplyOfCompleteRow(outcome[p].payload, call[p].query)

\* A lookup called while another call's store awaited its embed has returned
\* the entry of that store.
C33_Witness ==
    \E p \in Procs, q \in Procs :
        /\ p # q
        /\ obs[p].overlapped /\ pc[p] = "done" /\ outcome[p].kind = "hit"
        /\ pc[q] = "done" /\ obs[q].inserts = 1
        /\ Len(rows) = 1

-----------------------------------------------------------------------------
\* Claim on the wait time of the per-second limit, under SpecFetch.

\* What checkRateLimit returns to a call made in this state.
CheckNow == CheckRateLimit(requestCount, now)

\* C34: when checkRateLimit refuses because of the per-second limit its
\* waitTimeMs is between 1 and 1000 ms, so the waitTimeMs === 0 test of
\* performBraveSearch is true exactly for the exhausted monthly quota: a call
\* that sleeps for the per-second limit sleeps on a positive wait, no call is
\* ended by the per-second limit, and no call sleeps on the monthly one.
C34_ZeroWaitOnlyForMonthlyQuota ==
    /\ CheckNow.reason = "second" => CheckNow.waitTimeMs \in 1..SecondWindowMs
    /\ IsQuotaError(CheckNow) <=> CheckNow.reason = "monthly"
    /\ \A p \in Procs :
          /\ obs[p].slept.cause = "second" => obs[p].slept.base \in 1..SecondWindowMs
          /\ outcome[p].error # "second_limit"
          /\ outcome[p].error = "quota" => obs[p].lastCheck = "monthly"
          /\ obs[p].lastCheck = "monthly" => pc[p] = "done" /\ outcome[p].error = "quota"

\* A call that was refused by the per-second limit part of the way through
\* the window sleeps on the rest of it.
C34_Witness ==
    \E p \in Procs :
        /\ pc[p] = "sleep" /\ obs[p].slept.cause = "second"
        /\ obs[p].lastCheck = "second"
        /\ obs[p].slept.base \in 1..(SecondWindowMs - 1)
        /\ now > requestCount.lastSecondReset

-----------------------------------------------------------------------------
\* Claim on the key of the cache lookup, under SpecPage.

\* findSimilar of call p settles in this step.
LookupStep(p) == pc[p] = "lookup" /\ pc'[p] # "lookup"

\* Row i of the table after the purge has the type of call p and a query
\* similar to that of p.
KeyRow(p, i) ==
    /\ rows'[i].search_type = call[p].searchType
    /\ SimAtLeastThreshold(CosineSimilarity(Embedding(call[p].query),
                                            rows'[i].query_embedding))

\* C35: the cache lookup of search() depends on the query, the searchType,
\* the cache contents and the time only: whether it hits is settled by the
\* rows of that type and their similarity to the query, whatever count and
\* offset are, and a hit returns the payload of such a row, which may have
\* been fetched with another count or offset.
C35_LookupIgnoresCountAndOffset ==
    [][\A p \in Procs :
          LookupStep(p) /\ ~obs'[p].embedFailed
              => /\ obs'[p].cacheHit <=> \E i \in 1..Len(rows') : KeyRow(p, i)
                 /\ obs'[p].cacheHit
                       => \E i \in 1..Len(rows') :
                             /\ KeyRow(p, i)
                             /\ outcome'[p].kind = "hit"
                             /\ outcome'[p].payload =
                                   CachedReply(rows'[i].results,
                                       FormatCacheAge(rows'[i].timestamp, now))]_vars

\* A search for one page has been answered from the cache with the results
\* fetched for another page.
C35_Witness ==
    \E p \in Procs :
        /\ pc[p] = "done" /\ outcome[p].kind = "hit"
        /\ outcome[p].payload.page # obs[p].page

-----------------------------------------------------------------------------
\* Claim on termination, under SpecLive.

\* Call p is under way.
Running(p) == pc[p] \notin {"idle", "done"}

-----------------------------------------------------------------------------
\* Claim on the cache switched off, under SpecOff.

\* Call p has had nothing to do with the cache or the embedding model.
CacheUntouchedBy(p) ==
    /\ pc[p] \notin {"lookup", "store"}
    /\ ~obs[p].cacheHit /\ ~obs[p].embedFailed
    /\ obs[p].stores = 0 /\ obs[p].inserts = 0
    /\ outcome[p].kind # "hit"
    /\ outcome[p].error \notin {"cache_init", "cache_lookup"}
    /\ pc[p] = "done" => attempt[p] > 0
    /\ outcome[p].kind = "fresh" => obs[p].fetches > 0 /\ obs[p].commits > 0

\* C37: with ENABLE_SEMANTIC_CACHE off, search() never calls the embedding
\* model and never reads or writes the cache: every search goes to
\* performBraveSearch, and the database, its rows and the model stay as they
\* were.
C37_CacheOffLeavesCacheAlone ==
    /\ [](~ENABLE_SEMANTIC_CACHE
            => /\ db = "null" /\ ~embInitialized /\ rows = LeftRows
               /\ \A p \in Procs : CacheUntouchedBy(p))
    /\ [][~ENABLE_SEMANTIC_CACHE
            => rows' = rows /\ db' = db /\ embInitialized' = embInitialized]_vars

\* A search of the text that is in the database file has been answered by
\* the provider.
C37_Witness ==
    \E p \in Procs :
        /\ ~ENABLE_SEMANTIC_CACHE
        /\ pc[p] = "done" /\ outcome[p].kind = "fresh"
        /\ call[p].query = rows[1].query
        /\ call[p].searchType = rows[1].search_type
        /\ obs[p].fetches > 0

-----------------------------------------------------------------------------
\* Claim on a candidate whose similarity throws, under SpecMixed.

\* The table holds a row of call p's type whose embedding has another
\* dimension than the embedding of p's query.
HoldsUnscorable(p) ==
    \E i \in 1..Len(rows) :
        /\ rows[i].search_type = call[p].searchType
        /\ CosineSimilarity(Embedding(call[p].query), rows[i].query_embedding).throws

\* The table holds a row of call p's type that meets the threshold.
HoldsMatch(p) ==
    \E i \in 1..Len(rows) :
        /\ rows[i].search_type = call[p].searchType
        /\ LET sim == CosineSimilarity(Embedding(call[p].query),
                                       rows[i].query_embedding)
           IN  ~sim.throws /\ SimAtLeastThreshold(sim)

\* C38: when the similarity of a scanned candidate throws, findSimilar
\* returns null, also when another scanned candidate meets the threshold; the
\* error stays inside findSimilar, and the search goes on as after a miss.
C38_ThrowingCandidateIsMiss ==
    \A p \in Procs :
        (/\ pc[p] \notin {"idle", "lookup"}
         /\ outcome[p].error # "cache_init" /\ ~obs[p].embedFailed
         /\ HoldsUnscorable(p))
            => /\ ~obs[p].cacheHit
               /\ outcome[p].kind # "hit"
               /\ outcome[p].error # "cache_lookup"
               /\ pc[p] = "done" => attempt[p] > 0

\* A lookup of a text whose entry is in the table has missed because of the
\* row of another dimension, and the search has gone to the provider.
C38_Witness ==
    \E p \in Procs :
        /\ pc[p] = "fetch" /\ ~obs[p].embedFailed
        /\ HoldsUnscorable(p) /\ HoldsMatch(p)
        /\ ~obs[p].cacheHit

-----------------------------------------------------------------------------
\* Claim on candidates of equal similarity, under SpecExpiry.

\* A row is as similar to the text of p's last lookup as the entry returned.
TiesWithHit(p, row) == Same(SimilarityTo(p, row), obs[p].lookup.similarity)

\* C39: when several scanned candidates share the maximal similarity,
\* findSimilar returns the one stored last, the first of them in the scan
\* by descending timestamp: a later candidate replaces the best one only
\* when it is strictly more similar.
C39_TieGoesToMostRecent ==
    \A p \in Procs :
        (/\ obs[p].lookup.done /\ ~obs[p].lookup.threw
         /\ obs[p].lookup.at = now /\ obs[p].lookup.found)
            => LET c == Scanned(p)
               IN  \A j \in 1..Len(c) :
                      TiesWithHit(p, c[j])
                          => c[j].timestamp <= obs[p].lookup.hitTimestamp

\* A lookup has scanned two candidates of the maximal similarity stored at
\* different times and returned the later one.
C39_Witness ==
    \E p \in Procs :
        /\ obs[p].lookup.done /\ obs[p].lookup.found /\ obs[p].lookup.at = now
        /\ LET c == Scanned(p)
           IN  \E i \in 1..Len(c), j \in 1..Len(c) :
                  /\ TiesWithHit(p, c[i]) /\ TiesWithHit(p, c[j])
                  /\ c[i].timestamp < c[j].timestamp
                  /\ c[j].timestamp = obs[p].lookup.hitTimestamp
====
